---- MODULE Spec2Model ----
(***************************************************************************)
(* Model of the customer-analysis dashboard (App component).               *)
(*                                                                         *)
(* Text is modelled as a sequence of characters so that substring search,  *)
(* trimming, the date patterns and the numeric parser are computed as the  *)
(* code computes them.  ASCII characters are one-character strings; each   *)
(* CJK character is a romanised token (the comments give the original).    *)
(* Numbers that JavaScript holds as doubles are exact rationals here:      *)
(* [n |-> numerator, d |-> denominator] in lowest terms; NaN is 0/0 and    *)
(* Infinity is 1/0.                                                        *)
(* Binary rounding of doubles is not modelled.                             *)
(***************************************************************************)
EXTENDS Integers, Sequences, FiniteSets, TLC

(***************************************************************************)
(* Characters and text helpers (String.prototype.includes / trim).         *)
(***************************************************************************)
DigitChars == <<"0", "1", "2", "3", "4", "5", "6", "7", "8", "9">>

IsDigit(c) == \E i \in 1..10 : DigitChars[i] = c

DigitVal(c) == (CHOOSE i \in 1..10 : DigitChars[i] = c) - 1

IsSpace(c) == c = " "

Includes(s, sub) ==
    \E i \in 0..(Len(s) - Len(sub)) : SubSeq(s, i + 1, i + Len(sub)) = sub

RECURSIVE TrimStart(_)
TrimStart(s) ==
    IF s # <<>> /\ IsSpace(Head(s)) THEN TrimStart(Tail(s)) ELSE s

RECURSIVE TrimEnd(_)
TrimEnd(s) ==
    IF s # <<>> /\ IsSpace(s[Len(s)]) THEN TrimEnd(SubSeq(s, 1, Len(s) - 1)) ELSE s

Trim(s) == TrimEnd(TrimStart(s))

UpperChar(c) ==
    CASE c = "p" -> "P"
      [] c = "t" -> "T"
      [] c = "a" -> "A"
      [] OTHER -> c

ToUpperCase(s) == [i \in 1..Len(s) |-> UpperChar(s[i])]

\* parseInt on a run of decimal digits
RECURSIVE ParseDigits(_)
ParseDigits(s) ==
    IF s = <<>> THEN 0
    ELSE ParseDigits(SubSeq(s, 1, Len(s) - 1)) * 10 + DigitVal(s[Len(s)])

\* number of consecutive digits of s starting at position p, counted up to max
RECURSIVE DigitRun(_, _, _)
DigitRun(s, p, max) ==
    IF max = 0 \/ p > Len(s) \/ ~IsDigit(s[p]) THEN 0
    ELSE 1 + DigitRun(s, p + 1, max - 1)

(***************************************************************************)
(* Numbers: exact rationals, NaN and Infinity.                             *)
(***************************************************************************)
NaN == [n |-> 0, d |-> 0]

Infinity == [n |-> 1, d |-> 0]

RECURSIVE GCD(_, _)
GCD(a, b) == IF b = 0 THEN a ELSE GCD(b, a % b)

Rat(n, d) == LET g == GCD(n, d) IN [n |-> n \div g, d |-> d \div g]

Zero == [n |-> 0, d |-> 1]

IsNaN(x) == x = NaN

IsFinite(x) == x # NaN /\ x # Infinity

\* JavaScript a / b for non-negative a (a rational) and a count b
Divide(a, b) ==
    IF IsNaN(a) THEN NaN
    ELSE IF b = 0 THEN (IF a.n = 0 THEN NaN ELSE Infinity)
    ELSE Rat(a.n, a.d * b)

Times(a, k) == IF IsFinite(a) THEN Rat(a.n * k, a.d) ELSE a

Plus(a, b) ==
    IF IsNaN(a) \/ IsNaN(b) THEN NaN
    ELSE IF a = Infinity \/ b = Infinity THEN Infinity
    ELSE Rat(a.n * b.d + b.n * a.d, a.d * b.d)

\* a > b; any comparison with NaN is false
GreaterThan(a, b) ==
    IF IsNaN(a) \/ IsNaN(b) THEN FALSE
    ELSE IF a = Infinity THEN b # Infinity
    ELSE IF b = Infinity THEN FALSE
    ELSE a.n * b.d > b.n * a.d

Int2Num(k) == [n |-> k, d |-> 1]

RECURSIVE Pow10(_)
Pow10(k) == IF k = 0 THEN 1 ELSE 10 * Pow10(k - 1)

\* value.replace(/[^0-9.]/g, '')
KeepDigitsAndDots(s) == SelectSeq(s, LAMBDA c : IsDigit(c) \/ c = ".")

RECURSIVE DigitPrefixLen(_, _)
DigitPrefixLen(s, p) ==
    IF p <= Len(s) /\ IsDigit(s[p]) THEN 1 + DigitPrefixLen(s, p + 1) ELSE 0

\* parseFloat on a string of digits and dots: the longest prefix
\* digits [. digits] holding at least one digit, else NaN
ParseFloat(s) ==
    LET ip == DigitPrefixLen(s, 1)
        hasDot == ip < Len(s) /\ s[ip + 1] = "."
        fp == IF hasDot THEN DigitPrefixLen(s, ip + 2) ELSE 0
    IN  IF ip + fp = 0 THEN NaN
        ELSE Rat(ParseDigits(SubSeq(s, 1, ip)) * Pow10(fp)
                   + ParseDigits(SubSeq(s, ip + 2, ip + 1 + fp)),
                 Pow10(fp))

\* the parse with 0 for '' and undefined
parseAmountOrZero(value) ==
    IF value = <<>> THEN Zero ELSE ParseFloat(KeepDigitsAndDots(value))

\* (value: string | undefined): '' and undefined are both falsy
parseAmount(value) ==
    IF value = <<>> THEN NaN ELSE ParseFloat(KeepDigitsAndDots(value))

parseNumber(value) ==
    IF value = <<>> THEN NaN ELSE ParseFloat(KeepDigitsAndDots(value))

(***************************************************************************)
(* Dates.  A Date is [valid, day, late]: day counts local calendar days    *)
(* from 1970-01-01 and late is 1 when the instant lies after the local     *)
(* midnight that starts that day (0 at that midnight).  TimeOf orders      *)
(* Dates as getTime() does.                                                *)
(***************************************************************************)
InvalidDate == [valid |-> FALSE, day |-> 0, late |-> 0]

TimeOf(date) == 2 * date.day + date.late

\* day number of the civil date (y, m, d), m in 1..12; d may lie outside the
\* month, which carries into the neighbouring months as the Date constructor does
DaysFromCivil(y, m, d) ==
    LET yy  == IF m <= 2 THEN y - 1 ELSE y
        era == yy \div 400
        yoe == yy - era * 400
        mp  == IF m > 2 THEN m - 3 ELSE m + 9
        doy == (153 * mp + 2) \div 5 + d - 1
        doe == yoe * 365 + yoe \div 4 - yoe \div 100 + doy
    IN  era * 146097 + doe - 719468

CivilFromDays(z) ==
    LET zz  == z + 719468
        era == zz \div 146097
        doe == zz - era * 146097
        yoe == (doe - doe \div 1460 + doe \div 36524 - doe \div 146096) \div 365
        doy == doe - (365 * yoe + yoe \div 4 - yoe \div 100)
        mp  == (5 * doy + 2) \div 153
        dd  == doy - (153 * mp + 2) \div 5 + 1
        mm  == IF mp < 10 THEN mp + 3 ELSE mp - 9
        yy  == yoe + era * 400 + (IF mm <= 2 THEN 1 ELSE 0)
    IN  [year |-> yy, month |-> mm, day |-> dd]

IsLeapYear(y) == (y % 4 = 0 /\ y % 100 # 0) \/ y % 400 = 0

DaysInMonth(y, m) ==
    IF m = 2 THEN (IF IsLeapYear(y) THEN 29 ELSE 28)
    ELSE IF m \in {4, 6, 9, 11} THEN 30 ELSE 31

\* new Date(year, monthIndex, day): years 0..99 mean 1900..1999, and a month
\* index or a day outside its range carries over
NewDateYMD(year, monthIndex, day) ==
    LET y0 == IF year \in 0..99 THEN 1900 + year ELSE year
        y  == y0 + monthIndex \div 12
        m  == (monthIndex % 12) + 1
    IN  [valid |-> TRUE, day |-> DaysFromCivil(y, m, day), late |-> 0]

getFullYear(date) == CivilFromDays(date.day).year

\* getMonth() + 1
getMonth1(date) == CivilFromDays(date.day).month

(***************************************************************************)
(* The three date patterns of the row loop.  A match is                    *)
(* [ok, g1, g2, g3, end]: the three captured numbers and the position of   *)
(* the last character the pattern consumed.                                *)
(***************************************************************************)
NoMatch == [ok |-> FALSE, g1 |-> 0, g2 |-> 0, g3 |-> 0, end |-> 0]

At(s, p, chars) == p <= Len(s) /\ s[p] \in chars

\* (\d{4}) sep1 (\d{1,2}) sep2 (\d{1,2}) tried at position p
MatchYearFirstAt(s, p, sep1, sep2) ==
    LET k == DigitRun(s, p + 5, 2)
        q == p + 5 + k
        j == DigitRun(s, q + 1, 2)
    IN  IF /\ DigitRun(s, p, 4) = 4
           /\ At(s, p + 4, sep1)
           /\ k >= 1
           /\ At(s, q, sep2)
           /\ j >= 1
        THEN [ok |-> TRUE,
              g1 |-> ParseDigits(SubSeq(s, p, p + 3)),
              g2 |-> ParseDigits(SubSeq(s, p + 5, q - 1)),
              g3 |-> ParseDigits(SubSeq(s, q + 1, q + j)),
              end |-> q + j]
        ELSE NoMatch

\* (\d{1,2}) sep (\d{1,2}) sep (\d{4}) tried at position p
MatchYearLastAt(s, p, sep) ==
    LET k1 == DigitRun(s, p, 2)
        q1 == p + k1
        k2 == DigitRun(s, q1 + 1, 2)
        q2 == q1 + 1 + k2
    IN  IF /\ k1 >= 1
           /\ At(s, q1, sep)
           /\ k2 >= 1
           /\ At(s, q2, sep)
           /\ DigitRun(s, q2 + 1, 4) = 4
        THEN [ok |-> TRUE,
              g1 |-> ParseDigits(SubSeq(s, p, q1 - 1)),
              g2 |-> ParseDigits(SubSeq(s, q1 + 1, q2 - 1)),
              g3 |-> ParseDigits(SubSeq(s, q2 + 1, q2 + 4)),
              end |-> q2 + 4]
        ELSE NoMatch

Min(S) == CHOOSE x \in S : \A y \in S : x <= y

\* String.prototype.match without the g flag: the leftmost match
FirstMatch(s, MatchAt(_, _)) ==
    LET ps == {p \in 1..Len(s) : MatchAt(s, p).ok}
    IN  IF ps = {} THEN NoMatch ELSE MatchAt(s, Min(ps))

SlashOrDash == {"/", "-"}

\* dateFormats[0]: /(\d{4})[/-](\d{1,2})[/-](\d{1,2})/
MatchFormat0(s) ==
    FirstMatch(s, LAMBDA t, p : MatchYearFirstAt(t, p, SlashOrDash, SlashOrDash))

\* dateFormats[1]: /(\d{1,2})[/-](\d{1,2})[/-](\d{4})/
MatchFormat1(s) ==
    FirstMatch(s, LAMBDA t, p : MatchYearLastAt(t, p, SlashOrDash))

\* dateFormats[2]: /(\d{4})年(\d{1,2})月(\d{1,2})日?/
MatchFormat2(s) ==
    FirstMatch(s, LAMBDA t, p : MatchYearFirstAt(t, p, {"nian"}, {"yue"}))

(***************************************************************************)
(* new Date(text).  Date.parse is fixed by the language only for the ISO   *)
(* forms; for the rest the outcome is the host's.  env.lenient says whether*)
(* the host accepts a day number past the end of its month (carrying it    *)
(* over) and dash-separated non-ISO forms; env.west says whether the local *)
(* zone is west of UTC, where an ISO date-only text (UTC midnight) falls   *)
(* on the previous local day, or east of it, where it falls later on the   *)
(* same local day.                                                         *)
(***************************************************************************)
HostEnvs == [lenient : BOOLEAN, west : BOOLEAN]

IsIsoDate(s) ==
    /\ Len(s) = 10
    /\ DigitRun(s, 1, 4) = 4 /\ s[5] = "-"
    /\ DigitRun(s, 6, 2) = 2 /\ s[8] = "-"
    /\ DigitRun(s, 9, 2) = 2

IsIsoYearMonth(s) ==
    Len(s) = 7 /\ DigitRun(s, 1, 4) = 4 /\ s[5] = "-" /\ DigitRun(s, 6, 2) = 2

UtcMidnight(y, m, d, env) ==
    [valid |-> TRUE,
     day |-> DaysFromCivil(y, m, d) - (IF env.west THEN 1 ELSE 0),
     late |-> 1]

\* a local calendar date given as text; a day of 29..31 past the month's end
\* is carried over by a lenient host and rejected by a strict one
LegacyDate(y, m, d, env) ==
    IF m \notin 1..12 \/ d \notin 1..31 THEN InvalidDate
    ELSE IF d <= DaysInMonth(y, m) \/ env.lenient THEN NewDateYMD(y, m - 1, d)
    ELSE InvalidDate

NewDateFromText(s, env) ==
    LET yf == MatchYearFirstAt(s, 1, SlashOrDash, SlashOrDash)
        yl == MatchYearLastAt(s, 1, SlashOrDash)
        slashes == ~Includes(s, <<"-">>)
    IN  IF IsIsoDate(s) THEN
            (IF yf.g2 \in 1..12 /\ yf.g3 \in 1..DaysInMonth(yf.g1, yf.g2)
               THEN UtcMidnight(yf.g1, yf.g2, yf.g3, env)
               ELSE LegacyDate(yf.g1, yf.g2, yf.g3, env))
        ELSE IF IsIsoYearMonth(s) THEN
            (LET y == ParseDigits(SubSeq(s, 1, 4))
                 m == ParseDigits(SubSeq(s, 6, 7))
             IN  IF m \in 1..12 THEN UtcMidnight(y, m, 1, env) ELSE InvalidDate)
        ELSE IF yf.ok /\ yf.end = Len(s) /\ (slashes \/ env.lenient) THEN
            LegacyDate(yf.g1, yf.g2, yf.g3, env)
        ELSE IF yl.ok /\ yl.end = Len(s) /\ (slashes \/ env.lenient) THEN
            LegacyDate(yl.g3, yl.g1, yl.g2, env)
        ELSE InvalidDate

\* the date of one row, from its trimmed date cell: the first pattern that
\* matches decides, and new Date(dateStr) is tried when none does
ParseRowDate(dateStr, env) ==
    LET m0 == MatchFormat0(dateStr)
        m1 == MatchFormat1(dateStr)
        m2 == MatchFormat2(dateStr)
    IN  IF m0.ok THEN NewDateYMD(m0.g1, m0.g2 - 1, m0.g3)
        ELSE IF m1.ok THEN NewDateYMD(m1.g3, m1.g1 - 1, m1.g2)
        ELSE IF m2.ok THEN NewDateYMD(m2.g1, m2.g2 - 1, m2.g3)
        ELSE NewDateFromText(dateStr, env)

(***************************************************************************)
(* The header labels and cell literals the analysis names.                 *)
(***************************************************************************)
ChuCiDaoDian == <<"chu", "ci", "dao", "dian">>              \* 初次到店
RiQi == <<"ri", "qi">>                                      \* 日期
DateWord == <<"D", "a", "t", "e">>                          \* Date
FuWuRiQi == <<"fu", "wu", "ri", "qi">>                      \* 服務日期
ShiFouChengJiao == <<"shi", "fou", "cheng", "jiao">>        \* 是否成交
ShiFouJieJi == <<"shi", "fou", "jie", "ji">>                \* 是否借機
ShiFouYouJieJi == <<"shi", "fou", "you", "jie", "ji">>      \* 是否有借機
ChengJiao == <<"cheng", "jiao">>                            \* 成交
ZhuangTai == <<"zhuang", "tai">>                            \* 狀態
YiChengJiao == <<"yi", "cheng", "jiao">>                    \* 已成交
Shi == <<"shi">>                                            \* 是
TrueWord == <<"T", "R", "U", "E">>                          \* TRUE
ChengJiaoJinE == <<"cheng", "jiao", "jin", "e">>            \* 成交金額
JinE == <<"jin", "e">>                                      \* 金額
JiaGe == <<"jia", "ge">>                                    \* 價格
YingYeE == <<"ying", "ye", "e">>                            \* 營業額
ZuoEr == <<"zuo", "er">>                                    \* 左耳
YouEr == <<"you4", "er">>                                   \* 右耳
PTA == <<"P", "T", "A">>                                    \* PTA
ZhuTingLiShi == <<"zhu", "ting", "li", "shi1">>             \* 主聽力師
TingLiShi == <<"ting", "li", "shi1">>                       \* 聽力師
WeiZhiYeWuYuan == <<"wei", "zhi", "ye", "wu", "yuan">>      \* 未知業務員
ZhenSuoMingCheng == <<"zhen", "suo", "ming", "cheng1">>     \* 診所名稱
MenShi == <<"men", "shi4">>                                 \* 門市
ZiDai == <<"zi", "dai">>                                    \* 自帶
NotAvailable == <<"#", "N", "/", "A">>                      \* #N/A
GuKeLaiYuan == <<"gu", "ke", "lai", "yuan2">>               \* 顧客來源
\* 顧客來源↵(可複選)
GuKeLaiYuanKeFuXuan ==
    GuKeLaiYuan \o <<"crarr", "(", "ke3", "fu4", "xuan", ")">>
TingShai == <<"ting", "shai">>                              \* 聽篩

(***************************************************************************)
(* A customer object: the header row and one data row.  customer[key] is   *)
(* the cell under the last column whose header is key ('' when the row is  *)
(* shorter); a key that is no header reads as undefined, which every use   *)
(* in the analysis treats as ''.                                           *)
(***************************************************************************)
Max(S) == CHOOSE x \in S : \A y \in S : x >= y

\* values[i][index] || ''
CellAt(row, index) == IF index \in 1..Len(row) THEN row[index] ELSE <<>>

Get(headers, row, key) ==
    LET cols == {i \in 1..Len(headers) : headers[i] = key}
    IN  IF cols = {} THEN <<>> ELSE CellAt(row, Max(cols))

\* a || b : the first operand when it is not ''
OrElse(a, b) == IF a # <<>> THEN a ELSE b

\* Array.prototype.findIndex, 1-based; 0 when nothing matches
FindIndex(seq, Test(_)) ==
    LET hits == {i \in 1..Len(seq) : Test(seq[i])}
    IN  IF hits = {} THEN 0 ELSE Min(hits)

getEarPTA(headers, row, earLabel) ==
    LET k == FindIndex(headers,
                 LAMBDA h : Includes(h, earLabel) /\ Includes(ToUpperCase(h), PTA))
    IN  IF k = 0 THEN NaN ELSE parseNumber(Get(headers, row, headers[k]))

\* isDealt of the specialist pass and isDealtHS of the hearing-screening pass
isDealt(headers, row) ==
    \/ Get(headers, row, ShiFouChengJiao) \in {Shi, TrueWord}
    \/ Get(headers, row, ShiFouJieJi) = TrueWord
    \/ Get(headers, row, ShiFouYouJieJi) = TrueWord
    \/ Get(headers, row, ShiFouJieJi) = Shi
    \/ Get(headers, row, ChengJiao) \in {Shi, TrueWord}
    \/ Get(headers, row, ZhuangTai) \in {ChengJiao, YiChengJiao}

\* isDealtClinic / isDealtStore, and isDealt of the clinic pass
isDealtClinic(headers, row) ==
    \/ Get(headers, row, ShiFouChengJiao) \in {Shi, TrueWord}
    \/ Get(headers, row, ShiFouJieJi) = TrueWord
    \/ Get(headers, row, ChengJiao) \in {Shi, TrueWord}
    \/ Get(headers, row, ZhuangTai) \in {ChengJiao, YiChengJiao}

\* isDealt of the monthly pass
isDealtMonthly(headers, row) ==
    \/ Get(headers, row, ShiFouChengJiao) \in {Shi, TrueWord}
    \/ Get(headers, row, ShiFouJieJi) = TrueWord
    \/ Get(headers, row, ShiFouYouJieJi) = TrueWord
    \/ Get(headers, row, ShiFouJieJi) = Shi

AboveThreshold(headers, row, ptaThreshold) ==
    \/ GreaterThan(getEarPTA(headers, row, ZuoEr), Int2Num(ptaThreshold))
    \/ GreaterThan(getEarPTA(headers, row, YouEr), Int2Num(ptaThreshold))

\* the threshold test written with >= : a PTA equal to the threshold passes
isPotentialFromThreshold(headers, row, ptaThreshold) ==
    \/ getEarPTA(headers, row, ZuoEr) = Int2Num(ptaThreshold)
    \/ getEarPTA(headers, row, YouEr) = Int2Num(ptaThreshold)
    \/ AboveThreshold(headers, row, ptaThreshold)
    \/ isDealt(headers, row)

\* the potential test without its || isDealt
isPotentialByPtaOnly(headers, row, ptaThreshold) ==
    AboveThreshold(headers, row, ptaThreshold)

\* the test with its comparison turned round: potential when no PTA is
\* above the threshold
isPotentialWithinThreshold(headers, row, ptaThreshold) ==
    ~AboveThreshold(headers, row, ptaThreshold) \/ isDealt(headers, row)

\* isPotentialCustomer of the specialist pass, the potential test of the
\* hearing-screening pass
isPotentialCustomer(headers, row, ptaThreshold) ==
    AboveThreshold(headers, row, ptaThreshold) \/ isDealt(headers, row)

\* isPotential of those passes without its converted disjunct
isPotentialClinicAboveThreshold(headers, row, ptaThreshold) ==
    AboveThreshold(headers, row, ptaThreshold)

\* isPotential of the monthly, clinic and store passes
isPotentialClinic(headers, row, ptaThreshold) ==
    AboveThreshold(headers, row, ptaThreshold) \/ isDealtClinic(headers, row)

\* parseAmount(成交金額 || 金額 || 價格 || 營業額 || '')
dealAmount(headers, row) ==
    parseAmount(OrElse(Get(headers, row, ChengJiaoJinE),
                OrElse(Get(headers, row, JinE),
                OrElse(Get(headers, row, JiaGe),
                       Get(headers, row, YingYeE)))))

\* !isNaN(dealAmount) && dealAmount > 0
CountsAsAmount(amount) == ~IsNaN(amount) /\ GreaterThan(amount, Zero)

\* customer['主聽力師'] || customer['聽力師'] || '未知業務員'
salesmanOf(headers, row) ==
    OrElse(Get(headers, row, ZhuTingLiShi),
    OrElse(Get(headers, row, TingLiShi), WeiZhiYeWuYuan))

\* customer['服務日期'] || customer['初次到店'] || ''
serviceDateOf(headers, row) ==
    OrElse(Get(headers, row, FuWuRiQi), Get(headers, row, ChuCiDaoDian))

(***************************************************************************)
(* The date-window filter (the row loop of performCustomerAnalysis).       *)
(***************************************************************************)
\* headers.findIndex(h => h.includes('初次到店') || h.includes('日期') || h.includes('Date'))
dateColumnIndex(headers) ==
    FindIndex(headers,
        LAMBDA h : Includes(h, ChuCiDaoDian) \/ Includes(h, RiQi) \/ Includes(h, DateWord))

\* new Date(dateRange.startYear, dateRange.startMonth - 1, 1)
startDate(dateRange) == NewDateYMD(dateRange.startYear, dateRange.startMonth - 1, 1)

\* new Date(dateRange.endYear, dateRange.endMonth, 0)
endDate(dateRange) == NewDateYMD(dateRange.endYear, dateRange.endMonth, 0)

InWindow(date, dateRange) ==
    ~(\/ TimeOf(date) < TimeOf(startDate(dateRange))
      \/ TimeOf(date) > TimeOf(endDate(dateRange)))

\* one turn of the loop: TRUE when the row reaches filteredRows.push
RowIsKept(row, dateColumn, dateRange, env) ==
    LET cell == CellAt(row, dateColumn)
        dateStr == Trim(cell)
        date == ParseRowDate(dateStr, env)
    IN  /\ cell # <<>>
        /\ dateStr # <<>>
        /\ date.valid
        /\ InWindow(date, dateRange)

\* the filter without its window test: every row with a valid date is kept
rowsOfAnyDate(values, dateRange, env) ==
    LET dateColumn == dateColumnIndex(values[1])
    IN  SelectSeq(Tail(values),
            LAMBDA row : /\ Trim(CellAt(row, dateColumn)) # <<>>
                         /\ ParseRowDate(Trim(CellAt(row, dateColumn)), env).valid)

\* the loop leaving at the first row without a date instead of passing to the
\* next row
rowsUpToFirstUndated(values, dateRange, env) ==
    LET dateColumn == dateColumnIndex(values[1])
        rows == Tail(values)
        stop == FindIndex(rows,
                    LAMBDA row : \/ Trim(CellAt(row, dateColumn)) = <<>>
                                 \/ ~ParseRowDate(Trim(CellAt(row, dateColumn)), env).valid)
        seen == IF stop = 0 THEN rows ELSE SubSeq(rows, 1, stop - 1)
    IN  SelectSeq(seen, LAMBDA row : RowIsKept(row, dateColumn, dateRange, env))

\* customersArray: the kept rows, in grid order
customersArray(values, dateRange, env) ==
    LET dateColumn == dateColumnIndex(values[1])
    IN  SelectSeq(Tail(values), LAMBDA row : RowIsKept(row, dateColumn, dateRange, env))

(***************************************************************************)
(* Helpers of the aggregation passes: an object used as a map is the       *)
(* sequence of its entries in the order of Object.keys, and                *)
(* Array.prototype.sort is stable.                                         *)
(***************************************************************************)
RECURSIVE FoldLeft(_, _, _)
FoldLeft(Op(_, _), acc, seq) ==
    IF seq = <<>> THEN acc ELSE FoldLeft(Op, Op(acc, Head(seq)), Tail(seq))

\* x goes before the first element that the comparator puts after it
InsertSorted(sorted, x, Before(_, _)) ==
    LET k == FindIndex(sorted, LAMBDA e : Before(x, e))
    IN  IF k = 0 THEN Append(sorted, x)
        ELSE SubSeq(sorted, 1, k - 1) \o <<x>> \o SubSeq(sorted, k, Len(sorted))

\* a property key that is an array index ("0", "7", "12"; no sign, no leading
\* zero; the sheets modelled hold no key of ten digits or more)
IsArrayIndex(key) ==
    /\ key # <<>>
    /\ Len(key) < 10
    /\ \A i \in 1..Len(key) : IsDigit(key[i])
    /\ Len(key) = 1 \/ key[1] # "0"

\* the place a new property takes in the order of Object.keys and
\* Object.values: array-index keys first, in ascending numeric order, then
\* the other keys in the order of their creation
PropertyPosition(keys, key) ==
    IF IsArrayIndex(key)
    THEN 1 + Cardinality({i \in 1..Len(keys) :
                 IsArrayIndex(keys[i]) /\ ParseDigits(keys[i]) < ParseDigits(key)})
    ELSE Len(keys) + 1

\* object[key] = entry for a key the object does not hold; keys are the keys
\* of the entries of object, in their order
AddProperty(object, keys, key, entry) ==
    LET k == PropertyPosition(keys, key)
    IN  SubSeq(object, 1, k - 1) \o <<entry>> \o SubSeq(object, k, Len(object))

SortBy(seq, Before(_, _)) ==
    FoldLeft(LAMBDA acc, x : InsertSorted(acc, x, Before), <<>>, seq)

RECURSIVE NumToText(_)
NumToText(k) ==
    IF k < 10 THEN <<DigitChars[k + 1]>>
    ELSE Append(NumToText(k \div 10), DigitChars[(k % 10) + 1])

\* `${date.getFullYear()}年${date.getMonth() + 1}月`
MonthKey(date) ==
    NumToText(getFullYear(date)) \o <<"nian">> \o NumToText(getMonth1(date)) \o <<"yue">>

\* parseInt(month.replace(/\d+年(\d+)月/, '$1'))
MonthOfKey(month) ==
    LET k == FindIndex(month, LAMBDA c : c = "nian")
    IN  ParseDigits(SubSeq(month, k + 1, k + DigitPrefixLen(month, k + 1)))

\* the comparator of the monthly and hearing-screening sorts
EarlierMonth(a, b) ==
    IF a.year # b.year THEN a.year < b.year
    ELSE MonthOfKey(a.month) < MonthOfKey(b.month)

\* (b.total - a.total) < 0
LargerTotal(a, b) == b.total - a.total < 0

\* (count / denominator) * 100
Percent(count, denominator) == Times(Divide(Int2Num(count), denominator), 100)

(***************************************************************************)
(* Specialist pass and the global totals.                                  *)
(* Entry fields: yeWuYuan 業務員, dingDanShuLiang 訂單數量,                *)
(* qianLiKeHuShu 潛力客戶數, chengJiaoLv 成交率,                           *)
(* dangJiYeJiLeiJi 當季業績累積.                                           *)
(***************************************************************************)
SalesmanIndex(acc, salesman) == FindIndex(acc, LAMBDA e : e.yeWuYuan = salesman)

\* first forEach: one zeroed entry per specialist, in the order of the
\* object's keys
SalesmenInit(headers, customers) ==
    FoldLeft(LAMBDA acc, row :
                 IF SalesmanIndex(acc, salesmanOf(headers, row)) # 0 THEN acc
                 ELSE AddProperty(acc, [i \in 1..Len(acc) |-> acc[i].yeWuYuan],
                                  salesmanOf(headers, row),
                                  [yeWuYuan |-> salesmanOf(headers, row),
                                   dingDanShuLiang |-> 0,
                                   qianLiKeHuShu |-> 0,
                                   chengJiaoLv |-> Zero,
                                   dangJiYeJiLeiJi |-> Zero]),
             <<>>, customers)

\* second forEach: the potential and order counters
SalesmenCount(headers, customers, ptaThreshold) ==
    FoldLeft(LAMBDA acc, row :
                 LET i == SalesmanIndex(acc, salesmanOf(headers, row))
                     p == IF isPotentialCustomer(headers, row, ptaThreshold) THEN 1 ELSE 0
                     o == IF isDealt(headers, row) THEN 1 ELSE 0
                 IN  [acc EXCEPT ![i] = [@ EXCEPT !.qianLiKeHuShu = @ + p,
                                                  !.dingDanShuLiang = @ + o]],
             SalesmenInit(headers, customers), customers)

\* the amounts of all of one specialist's customers, converted or not
revenueOfEveryCustomer(headers, customers, salesman) ==
    FoldLeft(LAMBDA sum, row :
                 IF /\ salesmanOf(headers, row) = salesman
                    /\ CountsAsAmount(dealAmount(headers, row))
                 THEN Plus(sum, dealAmount(headers, row)) ELSE sum,
             Zero, customers)

\* the amounts of one specialist's converted customers
SalesmanRevenue(headers, customers, salesman) ==
    FoldLeft(LAMBDA sum, row :
                 IF /\ salesmanOf(headers, row) = salesman
                    /\ isDealt(headers, row)
                    /\ CountsAsAmount(dealAmount(headers, row))
                 THEN Plus(sum, dealAmount(headers, row)) ELSE sum,
             Zero, customers)

\* the salesmenAnalysis object handed to setSalesmenAnalysis
SalesmenAnalysis(headers, customers, ptaThreshold) ==
    LET counted == SalesmenCount(headers, customers, ptaThreshold)
    IN  [i \in 1..Len(counted) |->
            [counted[i] EXCEPT
                !.dangJiYeJiLeiJi = SalesmanRevenue(headers, customers, counted[i].yeWuYuan),
                !.chengJiaoLv = IF counted[i].qianLiKeHuShu > 0
                                THEN Percent(counted[i].dingDanShuLiang,
                                             counted[i].qianLiKeHuShu)
                                ELSE Zero]]

\* the global count with the converted rows below the threshold left out
totalPotentialAboveThreshold(headers, customers, ptaThreshold) ==
    Len(SelectSeq(customers, LAMBDA row : AboveThreshold(headers, row, ptaThreshold)))

totalPotentialCustomers(headers, customers, ptaThreshold) ==
    Len(SelectSeq(customers, LAMBDA row : isPotentialCustomer(headers, row, ptaThreshold)))

totalOrders(headers, customers) ==
    Len(SelectSeq(customers, LAMBDA row : isDealt(headers, row)))

\* totalRevenue grows with every amount added to a specialist's total
totalRevenue(salesmen) ==
    FoldLeft(LAMBDA sum, e : Plus(sum, e.dangJiYeJiLeiJi), Zero, salesmen)

\* the rate without its totalPotentialCustomers > 0 test
unguardedConversionRate(potential, orders) == Percent(orders, potential)

overallConversionRate(potential, orders) ==
    IF potential > 0 THEN Percent(orders, potential) ELSE Zero

(***************************************************************************)
(* Monthly pass.                                                           *)
(***************************************************************************)
MonthIndex(acc, key) == FindIndex(acc, LAMBDA e : e.month = key)

MonthlyStep(headers, ptaThreshold, env, acc, row) ==
    LET date == NewDateFromText(serviceDateOf(headers, row), env)
        key == MonthKey(date)
        withKey == IF MonthIndex(acc, key) # 0 THEN acc
                   ELSE Append(acc, [month |-> key,
                                     year |-> getFullYear(date),
                                     newCustomers |-> 0,
                                     completedDeals |-> 0,
                                     conversionRate |-> Zero,
                                     totalAmount |-> Zero,
                                     averageAmount |-> Zero])
        i == MonthIndex(withKey, key)
        amount == dealAmount(headers, row)
    IN  IF serviceDateOf(headers, row) = <<>> \/ ~date.valid THEN acc
        ELSE [withKey EXCEPT ![i] =
                [@ EXCEPT
                    !.newCustomers =
                        IF isPotentialClinic(headers, row, ptaThreshold) THEN @ + 1 ELSE @,
                    !.completedDeals =
                        IF isDealtMonthly(headers, row) THEN @ + 1 ELSE @,
                    !.totalAmount =
                        IF isDealtMonthly(headers, row) /\ CountsAsAmount(amount)
                        THEN Plus(@, amount) ELSE @]]

\* the two monthly divisions without their > 0 tests
unguardedMonthlyRates(e) ==
    [e EXCEPT
        !.conversionRate = Percent(e.completedDeals, e.newCustomers),
        !.averageAmount = Divide(e.totalAmount, e.completedDeals)]

MonthlyRates(e) ==
    [e EXCEPT
        !.conversionRate = IF e.newCustomers > 0
                           THEN Percent(e.completedDeals, e.newCustomers) ELSE @,
        !.averageAmount = IF e.completedDeals > 0
                          THEN Divide(e.totalAmount, e.completedDeals) ELSE @]

\* Object.values(customerMonthlyData) without the sort
monthlyValuesUnsorted(headers, customers, ptaThreshold, env) ==
    LET folded == FoldLeft(LAMBDA acc, row : MonthlyStep(headers, ptaThreshold, env, acc, row),
                           <<>>, customers)
    IN  [i \in 1..Len(folded) |-> MonthlyRates(folded[i])]

sortedMonthlyData(headers, customers, ptaThreshold, env) ==
    LET folded == FoldLeft(LAMBDA acc, row : MonthlyStep(headers, ptaThreshold, env, acc, row),
                           <<>>, customers)
    IN  SortBy([i \in 1..Len(folded) |-> MonthlyRates(folded[i])], EarlierMonth)

(***************************************************************************)
(* Clinic pass.                                                            *)
(***************************************************************************)
ClinicIndex(acc, name) == FindIndex(acc, LAMBDA e : e.clinic = name)

ClinicStep(headers, ptaThreshold, acc, row) ==
    LET clinicName == Trim(Get(headers, row, ZhenSuoMingCheng))
        withKey == IF ClinicIndex(acc, clinicName) # 0 THEN acc
                   ELSE AddProperty(acc, [j \in 1..Len(acc) |-> acc[j].clinic], clinicName,
                                    [clinic |-> clinicName,
                                     total |-> 0,
                                     potential |-> 0,
                                     dealt |-> 0,
                                     conversionRate |-> Zero,
                                     totalAmount |-> Zero])
        i == ClinicIndex(withKey, clinicName)
        amount == dealAmount(headers, row)
    IN  IF clinicName = <<>> THEN acc
        ELSE [withKey EXCEPT ![i] =
                [@ EXCEPT
                    !.total = @ + 1,
                    !.potential =
                        IF isPotentialClinic(headers, row, ptaThreshold) THEN @ + 1 ELSE @,
                    !.dealt = IF isDealtClinic(headers, row) THEN @ + 1 ELSE @,
                    !.totalAmount =
                        IF isDealtClinic(headers, row) /\ CountsAsAmount(amount)
                        THEN Plus(@, amount) ELSE @]]

\* c.total > 0 ? (c.dealt / c.total) * 100 : 0
TotalRate(e) ==
    [e EXCEPT !.conversionRate = IF e.total > 0 THEN Percent(e.dealt, e.total) ELSE Zero]

\* Object.values(clinicSummary) without the sort
clinicValuesUnsorted(headers, customers, ptaThreshold) ==
    LET folded == FoldLeft(LAMBDA acc, row : ClinicStep(headers, ptaThreshold, acc, row),
                           <<>>, customers)
    IN  [i \in 1..Len(folded) |-> TotalRate(folded[i])]

clinicArray(headers, customers, ptaThreshold) ==
    LET folded == FoldLeft(LAMBDA acc, row : ClinicStep(headers, ptaThreshold, acc, row),
                           <<>>, customers)
    IN  SortBy([i \in 1..Len(folded) |-> TotalRate(folded[i])], LargerTotal)

(***************************************************************************)
(* Store pass.                                                             *)
(***************************************************************************)
StoreIndex(acc, name) == FindIndex(acc, LAMBDA e : e.store = name)

\* Object.keys(customer).find(k => k.includes('門市') && k.includes('自帶'))
storeKey(headers) ==
    FindIndex(headers, LAMBDA h : Includes(h, MenShi) /\ Includes(h, ZiDai))

\* the store step without its test of the store name
storeStepOfAnyName(headers, ptaThreshold, acc, row) ==
    LET k == storeKey(headers)
        storeNameRaw == IF k = 0 THEN <<>> ELSE Trim(Get(headers, row, headers[k]))
        withKey == IF StoreIndex(acc, storeNameRaw) # 0 THEN acc
                   ELSE AddProperty(acc, [j \in 1..Len(acc) |-> acc[j].store], storeNameRaw,
                                    [store |-> storeNameRaw, total |-> 0, potential |-> 0])
        i == StoreIndex(withKey, storeNameRaw)
    IN  IF k = 0 THEN acc
        ELSE [withKey EXCEPT ![i] =
                [@ EXCEPT
                    !.total = @ + 1,
                    !.potential =
                        IF isPotentialClinic(headers, row, ptaThreshold) THEN @ + 1 ELSE @]]

StoreStep(headers, ptaThreshold, acc, row) ==
    LET k == storeKey(headers)
        storeNameRaw == IF k = 0 THEN <<>> ELSE Trim(Get(headers, row, headers[k]))
        withKey == IF StoreIndex(acc, storeNameRaw) # 0 THEN acc
                   ELSE AddProperty(acc, [j \in 1..Len(acc) |-> acc[j].store], storeNameRaw,
                                    [store |-> storeNameRaw, total |-> 0, potential |-> 0])
        i == StoreIndex(withKey, storeNameRaw)
    IN  IF k = 0 \/ storeNameRaw = <<>> \/ storeNameRaw = NotAvailable THEN acc
        ELSE [withKey EXCEPT ![i] =
                [@ EXCEPT
                    !.total = @ + 1,
                    !.potential =
                        IF isPotentialClinic(headers, row, ptaThreshold) THEN @ + 1 ELSE @]]

storeArray(headers, customers, ptaThreshold) ==
    SortBy(FoldLeft(LAMBDA acc, row : StoreStep(headers, ptaThreshold, acc, row),
                    <<>>, customers),
           LargerTotal)

(***************************************************************************)
(* Hearing-screening pass.                                                 *)
(***************************************************************************)
\* (customer['顧客來源'] || customer['顧客來源↵(可複選)'] || '').toString()
sourceVal(headers, row) ==
    OrElse(Get(headers, row, GuKeLaiYuan), Get(headers, row, GuKeLaiYuanKeFuXuan))

\* the hearing-screening step without its test of the source
hearingStepOfAnySource(headers, ptaThreshold, env, acc, row) ==
    LET date == NewDateFromText(serviceDateOf(headers, row), env)
        key == MonthKey(date)
        withKey == IF MonthIndex(acc, key) # 0 THEN acc
                   ELSE Append(acc, [month |-> key,
                                     year |-> getFullYear(date),
                                     total |-> 0,
                                     potential |-> 0,
                                     dealt |-> 0,
                                     conversionRate |-> Zero,
                                     totalAmount |-> Zero])
        i == MonthIndex(withKey, key)
        amount == dealAmount(headers, row)
    IN  IF serviceDateOf(headers, row) = <<>> \/ ~date.valid THEN acc
        ELSE [withKey EXCEPT ![i] =
                [@ EXCEPT
                    !.total = @ + 1,
                    !.potential =
                        IF isPotentialCustomer(headers, row, ptaThreshold) THEN @ + 1 ELSE @,
                    !.dealt = IF isDealt(headers, row) THEN @ + 1 ELSE @,
                    !.totalAmount =
                        IF isDealt(headers, row) /\ CountsAsAmount(amount)
                        THEN Plus(@, amount) ELSE @]]

HearingStep(headers, ptaThreshold, env, acc, row) ==
    LET date == NewDateFromText(serviceDateOf(headers, row), env)
        key == MonthKey(date)
        withKey == IF MonthIndex(acc, key) # 0 THEN acc
                   ELSE Append(acc, [month |-> key,
                                     year |-> getFullYear(date),
                                     total |-> 0,
                                     potential |-> 0,
                                     dealt |-> 0,
                                     conversionRate |-> Zero,
                                     totalAmount |-> Zero])
        i == MonthIndex(withKey, key)
        amount == dealAmount(headers, row)
    IN  IF \/ ~Includes(sourceVal(headers, row), TingShai)
           \/ serviceDateOf(headers, row) = <<>>
           \/ ~date.valid
        THEN acc
        ELSE [withKey EXCEPT ![i] =
                [@ EXCEPT
                    !.total = @ + 1,
                    !.potential =
                        IF isPotentialCustomer(headers, row, ptaThreshold) THEN @ + 1 ELSE @,
                    !.dealt = IF isDealt(headers, row) THEN @ + 1 ELSE @,
                    !.totalAmount =
                        IF isDealt(headers, row) /\ CountsAsAmount(amount)
                        THEN Plus(@, amount) ELSE @]]

hearingArray(headers, customers, ptaThreshold, env) ==
    LET folded == FoldLeft(LAMBDA acc, row : HearingStep(headers, ptaThreshold, env, acc, row),
                           <<>>, customers)
    IN  SortBy([i \in 1..Len(folded) |-> TotalRate(folded[i])], EarlierMonth)

(***************************************************************************)
(* The object handed to the second setCustomerAnalysis.                    *)
(***************************************************************************)
\* the object with earliest read from the last record and latest from the first
customerAnalysisWithEndsSwapped(headers, customers, ptaThreshold, env) ==
    LET salesmen == SalesmenAnalysis(headers, customers, ptaThreshold)
        potential == totalPotentialCustomers(headers, customers, ptaThreshold)
        orders == totalOrders(headers, customers)
    IN  [monthlyData |-> sortedMonthlyData(headers, customers, ptaThreshold, env),
         totalCustomers |-> potential,
         totalCompletedDeals |-> orders,
         totalAmount |-> totalRevenue(salesmen),
         overallConversionRate |-> overallConversionRate(potential, orders),
         dateRange |-> [earliest |-> serviceDateOf(headers, customers[Len(customers)]),
                        latest |-> serviceDateOf(headers, customers[1])]]

CustomerAnalysisOf(headers, customers, ptaThreshold, env) ==
    LET salesmen == SalesmenAnalysis(headers, customers, ptaThreshold)
        potential == totalPotentialCustomers(headers, customers, ptaThreshold)
        orders == totalOrders(headers, customers)
    IN  [monthlyData |-> sortedMonthlyData(headers, customers, ptaThreshold, env),
         totalCustomers |-> potential,
         totalCompletedDeals |-> orders,
         totalAmount |-> totalRevenue(salesmen),
         overallConversionRate |-> overallConversionRate(potential, orders),
         dateRange |-> [earliest |-> serviceDateOf(headers, customers[1]),
                        latest |-> serviceDateOf(headers, customers[Len(customers)])]]

(***************************************************************************)
(* Bounded inputs: the sheets the spreadsheet may hold, the selectable     *)
(* date ranges and thresholds, the hosts.                                  *)
(***************************************************************************)
MaxRows == 3

MaxFetches == 2

\* new Date().getFullYear() when the component is built
CurrentYear == 2024

\* useState(40)
DefaultPtaThreshold == 40

\* cell texts
Empty == <<>>
Blank == <<" ">>
D20240315 == <<"2", "0", "2", "4", "/", "0", "3", "/", "1", "5">>
D20230315 == <<"2", "0", "2", "3", "/", "0", "3", "/", "1", "5">>
D20240410 == <<"2", "0", "2", "4", "/", "4", "/", "1", "0">>
D20240231 == <<"2", "0", "2", "4", "/", "0", "2", "/", "3", "1">>
D20241301 == <<"2", "0", "2", "4", "/", "1", "3", "/", "0", "1">>
D20240101 == <<"2", "0", "2", "4", "/", "0", "1", "/", "0", "1">>
D20241231Iso == <<"2", "0", "2", "4", "-", "1", "2", "-", "3", "1">>
D20240301Iso == <<"2", "0", "2", "4", "-", "0", "3", "-", "0", "1">>
D20250101 == <<"2", "0", "2", "5", "/", "0", "1", "/", "0", "1">>
D03152024 == <<"0", "3", "/", "1", "5", "/", "2", "0", "2", "4">>
D2024Nian3Yue15Ri == <<"2", "0", "2", "4", "nian", "3", "yue", "1", "5", "ri">>
D202403 == <<"2", "0", "2", "4", "-", "0", "3">>
D202404 == <<"2", "0", "2", "4", "-", "0", "4">>
NotADate == <<"x">>
Fou == <<"fou">>                                            \* 否
TrueLower == <<"t", "r", "u", "e">>
A15000 == <<"1", "5", "0", "0", "0">>
A152000 == <<"N", "T", "$", "1", "5", "2", ",", "0", "0", "0", ".", "0", "0">>
A0 == <<"0">>
AText == <<"x", "x">>
P50 == <<"5", "0">>
P45 == <<"4", "5">>
P40 == <<"4", "0">>
P20 == <<"2", "0">>
P405 == <<"4", "0", ".", "5">>
Wang == <<"wang">>                                          \* specialist names
Li == <<"li3">>
Staff7 == <<"7">>
ClinicA == <<"clinic", "A">>
ClinicB == <<"clinic", "B">>
StoreA == <<"store", "A">>
SourceScreening == <<"she", "qu">> \o TingShai              \* 社區聽篩
SourceWalkIn == <<"lu", "guo">>                             \* 路過

ClinicAPadded == <<" ">> \o ClinicA \o <<" ">>
StoreB == <<"store", "B">>

DateCells ==
    {D20240315, D20230315, D20240410, D20240231, D20241301, D20240101,
     D20241231Iso, D20240301Iso, D20250101, D03152024, D2024Nian3Yue15Ri,
     D202403, D202404, NotADate, Blank, Empty}

\* Layout A: 初次到店 | 是否成交 | 成交金額 | 左耳PTA | 右耳PTA | 主聽力師
HeaderA ==
    <<ChuCiDaoDian, ShiFouChengJiao, ChengJiaoJinE, ZuoEr \o PTA, YouEr \o PTA, ZhuTingLiShi>>

RowA1 == <<D20240315, Shi, A15000, P50, P20, Wang>>
RowA2 == <<D20240410, Fou, Empty, P45, P20, Li>>
RowA3 == <<D20230315, Shi, A152000, P20, P20, Wang>>
RowA4 == <<D20240410, Shi, A152000, P20, P20, Staff7>>
RowA5 == <<NotADate, Shi, A15000, P50, P20, Li>>

RowsA ==
    {<<d, Shi, A15000, P50, P20, Wang>> : d \in DateCells}
    \cup {<<D20240315, Shi, a, P20, P20, Wang>> : a \in {A15000, A152000, A0, AText, Empty}}
    \cup {<<D20240315, c, A15000, P20, P20, Wang>> : c \in {TrueLower, Fou}}
    \cup {<<D20240315, Fou, Empty, l, P20, Wang>> : l \in {P50, P45, P40, P405, AText, Empty}}
    \cup {<<D20240315, Fou, Empty, P20, P45, Wang>>, <<D20240315, TrueWord, A15000, P20, P20, Empty>>,
          <<D20240315, Shi>>, <<>>}

\* Layout B: 初次到店 | 服務日期 | 是否借機 | 是否有借機 | 成交 | 狀態 | 金額
HeaderB ==
    <<ChuCiDaoDian, FuWuRiQi, ShiFouJieJi, ShiFouYouJieJi, ChengJiao, ZhuangTai, JinE>>

RowB1 == <<D20240315, D20240410, Shi, Empty, Empty, Empty, A15000>>
RowB2 == <<D20240410, D20230315, Empty, Empty, Shi, Empty, A152000>>

RowsB ==
    {<<D20240315, Empty, a, Empty, Empty, Empty, A15000>> : a \in {Empty, Shi, TrueWord}}
    \cup {<<D20240315, Empty, Empty, b, Empty, Empty, A15000>> : b \in {Shi, TrueWord}}
    \cup {<<D20240315, Empty, Empty, Empty, c, Empty, A15000>> : c \in {Shi, TrueWord}}
    \cup {<<D20240315, Empty, Empty, Empty, Empty, z, A15000>> :
              z \in {ChengJiao, YiChengJiao, Shi}}
    \cup {<<D20240315, e, Shi, Empty, Empty, Empty, A15000>> :
              e \in {D20240410, D20230315, D2024Nian3Yue15Ri, D20240301Iso, D20240231}}

\* Layout C: 初次到店 | 診所名稱 | 門市(自帶) | 顧客來源 | 是否成交 | 價格 | 聽力師 | 左耳pta
HeaderC ==
    <<ChuCiDaoDian, ZhenSuoMingCheng, MenShi \o <<"(">> \o ZiDai \o <<")">>, GuKeLaiYuan,
      ShiFouChengJiao, JiaGe, TingLiShi, ZuoEr \o <<"p", "t", "a">>>>

RowC1 == <<D20240315, ClinicA, StoreA, SourceScreening, Shi, A15000, Li, P50>>
RowC2 == <<D20240410, ClinicB, StoreB, SourceScreening, Fou, Empty, Empty, P45>>

RowsC ==
    {<<D20240315, c, StoreA, SourceWalkIn, Shi, A15000, Li, P50>> :
         c \in {ClinicA, ClinicAPadded, Blank, Empty}}
    \cup {<<D20240315, ClinicA, t, SourceWalkIn, Shi, A15000, Li, P50>> :
              t \in {NotAvailable, Blank, Empty}}
    \cup {<<D20240315, ClinicA, StoreA, v, c, A15000, Li, P20>> :
              v \in {SourceScreening, SourceWalkIn, Empty}, c \in {Shi, Fou}}
    \cup {<<D20240315, ClinicA, StoreA, SourceScreening, Fou, A15000, Li, P50>>}

\* Layout D, no date column: 主聽力師 | 是否成交
HeaderD == <<ZhuTingLiShi, ShiFouChengJiao>>

RowsD == {<<Wang, Shi>>, <<Li, Fou>>}

\* Layout E: Date | 服務日期 | 顧客來源↵(可複選) | 是否有借機 | 聽力師
HeaderE == <<DateWord, FuWuRiQi, GuKeLaiYuanKeFuXuan, ShiFouYouJieJi, TingLiShi>>

RowE1 == <<D20240315, D20240410, SourceScreening, TrueWord, Li>>
RowE2 == <<D20240410, D20240315, SourceWalkIn, Shi, Wang>>

RowsE ==
    {<<D20240315, e, SourceScreening, c, Li>> :
         e \in {D20240315, D20240231, Empty}, c \in {TrueWord, Shi}}

\* the sequences of 2..MaxRows rows that take the rows of core in turn,
\* starting anywhere
RowSeqs(core) ==
    {[i \in 1..k |-> core[((start + i - 2) % Len(core)) + 1]] :
         k \in 2..MaxRows, start \in 1..Len(core)}

SheetsOf(header, single, core) ==
    {<<header, r>> : r \in single} \cup {<<header>> \o rs : rs \in RowSeqs(core)}

\* the values a sheet of the spreadsheet may hold
Sheets ==
    SheetsOf(HeaderA, RowsA, <<RowA1, RowA2, RowA3>>)
    \cup SheetsOf(HeaderB, RowsB, <<RowB1, RowB2>>)
    \cup SheetsOf(HeaderC, RowsC, <<RowC1, RowC2>>)
    \cup {<<HeaderD, r>> : r \in RowsD}
    \cup SheetsOf(HeaderE, RowsE, <<RowE1, RowE2>>)
    \cup {<<HeaderA, RowA1, RowA4, RowA2>>, <<HeaderC, RowC1, RowC2, RowC2>>}
    \cup {<<HeaderA, <<>>, RowA5, RowA1>>}
    \cup {<<HeaderA>>, <<HeaderD>>, <<>>}

\* a sheet some cell of which new Date(text) reads differently on two hosts
HostMatters(sheet) ==
    \E i \in 1..Len(sheet) : \E j \in 1..Len(sheet[i]) : \E e1, e2 \in HostEnvs :
        NewDateFromText(Trim(sheet[i][j]), e1) # NewDateFromText(Trim(sheet[i][j]), e2)

\* the hosts told apart for a sheet: all hosts read a sheet alike unless
\* HostMatters, and then one host stands for them
HostsFor(sheet) ==
    IF HostMatters(sheet) THEN HostEnvs ELSE {[lenient |-> TRUE, west |-> FALSE]}

\* the options of the date-range selects and of the threshold select that a
\* session picks
DateRangeChoices ==
    {<<"endMonth", 12>>, <<"endMonth", 3>>}

PtaThresholdChoices == {DefaultPtaThreshold, 45}

SheetName == "Sheet1"

\* a second sheet of the spreadsheet, and what the Sheets API returns for it
OtherSheetName == "Sheet2"

OtherSheet == <<HeaderA, RowA1, RowA2>>

\* what the first sheet of a spreadsheet of two sheets may hold
SessionSheets == {<<HeaderC, RowC1, RowC2>>}

(***************************************************************************)
(* State.  A nullable state is a sequence: <<>> for null, <<v>> for v.     *)
(***************************************************************************)
VARIABLES
    user,                     \* useState<UserProfile | null>: TRUE when set
    accessToken,              \* TRUE when a token is held ('' otherwise)
    spreadsheetId,            \* TRUE when an id is held ('' otherwise)
    availableSheets,          \* sheet titles of the spreadsheet
    selectedSheet,            \* '' or a sheet title
    sheetData,                \* null or <<[values |-> grid]>>
    loading,
    error,
    dateRange,
    ptaThreshold,
    customerAnalysis,
    salesmenAnalysis,
    clinicAnalysis,
    storeReferralAnalysis,
    hearingScreeningAnalysis,
    remoteSheet,              \* what the Sheets API returns for the first sheet
    remoteTitles,             \* the sheet titles of the spreadsheet
    hostEnv,                  \* the JavaScript host (see NewDateFromText)
    pending,                  \* requests in flight
    fetches,                  \* requests sent so far
    analysisRun               \* where the last performCustomerAnalysis returned;
                              \* "idle" when none has run, or when a handler has
                              \* since changed a state it read or wrote

session == <<user, accessToken>>
sheetVars == <<spreadsheetId, availableSheets, selectedSheet, sheetData>>
params == <<dateRange, ptaThreshold>>
results == <<customerAnalysis, salesmenAnalysis, clinicAnalysis,
             storeReferralAnalysis, hearingScreeningAnalysis>>
environment == <<remoteSheet, remoteTitles, hostEnv>>
vars == <<session, sheetVars, loading, error, params, results, environment,
          pending, fetches, analysisRun>>

Null == <<>>
Some(v) == <<v>>

NoDateColumnError == "noDateColumn"      \* 找不到日期相關欄位，請確認資料表包含初次到店日期
FetchFailedError == "fetchFailed"        \* Failed to fetch ...

Init ==
    /\ user = FALSE
    /\ accessToken = FALSE
    /\ spreadsheetId = FALSE
    /\ availableSheets = <<>>
    /\ selectedSheet = ""
    /\ sheetData = Null
    /\ loading = FALSE
    /\ error = ""
    /\ dateRange = [startYear |-> CurrentYear, startMonth |-> 1,
                    endYear |-> CurrentYear, endMonth |-> 12]
    /\ ptaThreshold = DefaultPtaThreshold
    /\ customerAnalysis = Null
    /\ salesmenAnalysis = Null
    /\ clinicAnalysis = Null
    /\ storeReferralAnalysis = Null
    /\ hearingScreeningAnalysis = Null
    /\ remoteSheet \in Sheets
    /\ remoteTitles = <<SheetName>>
    /\ hostEnv \in HostsFor(remoteSheet)
    /\ pending = <<>>
    /\ fetches = 0
    /\ analysisRun = "idle"

\* the values the Sheets API returns for a sheet title
RemoteValues(title) == IF title = remoteTitles[1] THEN remoteSheet ELSE OtherSheet

\* the requests a session may send: MaxFetches for each sheet of the spreadsheet
FetchLimit == MaxFetches * Len(remoteTitles)

RemoveAt(seq, i) == SubSeq(seq, 1, i - 1) \o SubSeq(seq, i + 1, Len(seq))

(***************************************************************************)
(* Login and loading a sheet.                                              *)
(***************************************************************************)
\* useGoogleLogin onSuccess: setAccessToken, then fetchUserProfile is sent
Login ==
    /\ ~user /\ ~accessToken
    /\ accessToken' = TRUE
    /\ pending' = Append(pending, [kind |-> "profile", sheet |-> ""])
    /\ UNCHANGED <<user, sheetVars, loading, error, params, results, environment,
                   fetches, analysisRun>>

\* fetchUserProfile after its awaits: setUser
UserProfileLoaded ==
    \E i \in 1..Len(pending) :
        /\ pending[i].kind = "profile"
        /\ pending' = RemoveAt(pending, i)
        /\ user' = TRUE
        /\ UNCHANGED <<accessToken, sheetVars, loading, error, params, results,
                       environment, fetches, analysisRun>>

\* handleSheetUrlSubmit with a valid URL: setSpreadsheetId and
\* fetchSpreadsheetMetadata up to its first await
HandleSheetUrlSubmit ==
    /\ user /\ ~loading /\ accessToken
    /\ fetches < FetchLimit
    /\ spreadsheetId' = TRUE
    /\ loading' = TRUE
    /\ error' = ""
    /\ pending' = Append(pending, [kind |-> "metadata", sheet |-> ""])
    /\ fetches' = fetches + 1
    /\ analysisRun' = "idle"
    /\ UNCHANGED <<session, availableSheets, selectedSheet, sheetData, params, results,
                   environment>>

\* fetchSpreadsheetMetadata after its awaits
SpreadsheetMetadataLoaded ==
    \E i \in 1..Len(pending) :
        /\ pending[i].kind = "metadata"
        /\ pending' = RemoveAt(pending, i)
        /\ \/ /\ availableSheets' = remoteTitles
              /\ selectedSheet' = ""
              /\ error' = error
           \/ /\ error' = FetchFailedError
              /\ UNCHANGED <<availableSheets, selectedSheet>>
        /\ loading' = FALSE
        /\ analysisRun' = "idle"
        /\ UNCHANGED <<session, spreadsheetId, sheetData, params, results, environment,
                       fetches>>

\* handleSheetChange: setSelectedSheet, and fetchSheetData up to its first
\* await when a spreadsheet, a sheet and a token are there
HandleSheetChange ==
    \E newSheet \in {""} \cup {availableSheets[i] : i \in 1..Len(availableSheets)} :
        /\ user
        /\ newSheet # selectedSheet
        /\ selectedSheet' = newSheet
        /\ IF spreadsheetId /\ newSheet # "" /\ accessToken
           THEN /\ fetches < FetchLimit
                /\ loading' = TRUE
                /\ error' = ""
                /\ pending' = Append(pending, [kind |-> "values", sheet |-> newSheet])
                /\ fetches' = fetches + 1
                /\ analysisRun' = "idle"
           ELSE UNCHANGED <<loading, error, pending, fetches, analysisRun>>
        /\ UNCHANGED <<session, spreadsheetId, availableSheets, sheetData, params, results,
                       environment>>

\* fetchSheetData after its awaits: setSheetData(data) or setError, then
\* setLoading(false)
SheetDataLoaded ==
    \E i \in 1..Len(pending) :
        /\ pending[i].kind = "values"
        /\ pending' = RemoveAt(pending, i)
        /\ \/ /\ sheetData' = Some([values |-> RemoteValues(pending[i].sheet)])
              /\ error' = error
           \/ /\ error' = FetchFailedError
              /\ UNCHANGED sheetData
        /\ loading' = FALSE
        /\ analysisRun' = "idle"
        /\ UNCHANGED <<session, spreadsheetId, availableSheets, selectedSheet, params,
                       results, environment, fetches>>

(***************************************************************************)
(* The analysis controls, rendered once sheetData is set.                  *)
(***************************************************************************)
\* the four selects: setDateRange({...dateRange, [field]: parseInt(value)})
SetDateRange ==
    \E choice \in DateRangeChoices :
        /\ user /\ sheetData # Null
        /\ dateRange[choice[1]] # choice[2]
        /\ dateRange' = [dateRange EXCEPT ![choice[1]] = choice[2]]
        /\ analysisRun' = "idle"
        /\ UNCHANGED <<session, sheetVars, loading, error, ptaThreshold, results,
                       environment, pending, fetches>>

\* setPtaThreshold(parseInt(e.target.value))
SetPtaThreshold ==
    \E value \in PtaThresholdChoices :
        /\ user /\ sheetData # Null
        /\ value # ptaThreshold
        /\ ptaThreshold' = value
        /\ analysisRun' = "idle"
        /\ UNCHANGED <<session, sheetVars, loading, error, dateRange, results,
                       environment, pending, fetches>>

(***************************************************************************)
(* performCustomerAnalysis, by the place where it returns.                 *)
(***************************************************************************)
\* if (!sheetData?.values || sheetData.values.length < 2) return;
ReturnsWithoutData ==
    /\ Len(sheetData[1].values) < 2
    /\ analysisRun' = "noData"
    /\ UNCHANGED <<error, results>>

\* the date-column check placed after a setter: the error is set, and an
\* empty by-specialist result is written all the same
FailsAfterWritingSalesmen ==
    /\ Len(sheetData[1].values) >= 2
    /\ dateColumnIndex(sheetData[1].values[1]) = 0
    /\ error' = NoDateColumnError
    /\ analysisRun' = "noDateColumn"
    /\ salesmenAnalysis' = Some(<<>>)
    /\ UNCHANGED <<customerAnalysis, clinicAnalysis, storeReferralAnalysis,
                   hearingScreeningAnalysis>>

\* if (dateColumnIndex === -1) { setError(...); return; }
FailsWithoutDateColumn ==
    /\ Len(sheetData[1].values) >= 2
    /\ dateColumnIndex(sheetData[1].values[1]) = 0
    /\ error' = NoDateColumnError
    /\ analysisRun' = "noDateColumn"
    /\ UNCHANGED results

\* if (filteredRows.length > 0) { ... } with no row kept
ReturnsWithoutRows ==
    /\ Len(sheetData[1].values) >= 2
    /\ dateColumnIndex(sheetData[1].values[1]) # 0
    /\ customersArray(sheetData[1].values, dateRange, hostEnv) = <<>>
    /\ analysisRun' = "noRows"
    /\ UNCHANGED <<error, results>>

\* the five setters, with the by-specialist entries added to the entries a
\* previous invocation left instead of replacing them
AddsToPreviousSalesmen ==
    LET values == sheetData[1].values
        headers == values[1]
        customers == customersArray(values, dateRange, hostEnv)
        entries == SalesmenAnalysis(headers, customers, ptaThreshold)
    IN  /\ Len(values) >= 2
        /\ dateColumnIndex(headers) # 0
        /\ customers # <<>>
        /\ salesmenAnalysis' =
               IF salesmenAnalysis = Null \/ Len(salesmenAnalysis[1]) > Len(entries)
               THEN Some(entries)
               ELSE Some(salesmenAnalysis[1] \o entries)
        /\ clinicAnalysis' = Some(clinicArray(headers, customers, ptaThreshold))
        /\ customerAnalysis' =
               Some(CustomerAnalysisOf(headers, customers, ptaThreshold, hostEnv))
        /\ storeReferralAnalysis' = Some(storeArray(headers, customers, ptaThreshold))
        /\ hearingScreeningAnalysis' =
               Some(hearingArray(headers, customers, ptaThreshold, hostEnv))
        /\ analysisRun' = "done"
        /\ UNCHANGED error

\* the body of if (filteredRows.length > 0): the five setters
CompletesAnalysis ==
    LET values == sheetData[1].values
        headers == values[1]
        customers == customersArray(values, dateRange, hostEnv)
    IN  /\ Len(values) >= 2
        /\ dateColumnIndex(headers) # 0
        /\ customers # <<>>
        /\ salesmenAnalysis' = Some(SalesmenAnalysis(headers, customers, ptaThreshold))
        /\ clinicAnalysis' = Some(clinicArray(headers, customers, ptaThreshold))
        /\ customerAnalysis' =
               Some(CustomerAnalysisOf(headers, customers, ptaThreshold, hostEnv))
        /\ storeReferralAnalysis' = Some(storeArray(headers, customers, ptaThreshold))
        /\ hearingScreeningAnalysis' =
               Some(hearingArray(headers, customers, ptaThreshold, hostEnv))
        /\ analysisRun' = "done"
        /\ UNCHANGED error

performCustomerAnalysis ==
    \/ ReturnsWithoutData
    \/ FailsWithoutDateColumn
    \/ ReturnsWithoutRows
    \/ CompletesAnalysis

\* the analysis storing every trimmed cell back into the grid it reads
GenerateAnalysisTrimmingInPlace ==
    /\ user /\ sheetData # Null
    /\ ~loading /\ selectedSheet # ""
    /\ performCustomerAnalysis
    /\ sheetData' =
           Some([values |->
               [i \in 1..Len(sheetData[1].values) |->
                   [j \in 1..Len(sheetData[1].values[i]) |->
                       Trim(sheetData[1].values[i][j])]]])
    /\ UNCHANGED <<session, spreadsheetId, availableSheets, selectedSheet, loading, params,
                   environment, pending, fetches>>

\* the report button (disabled while loading or with no sheet selected) and
\* generateAnalysis: if (selectedSheet && sheetData?.values) performCustomerAnalysis()
GenerateAnalysis ==
    /\ user /\ sheetData # Null
    /\ ~loading /\ selectedSheet # ""
    /\ performCustomerAnalysis
    /\ UNCHANGED <<session, sheetVars, loading, params, environment, pending, fetches>>

Next ==
    \/ Login
    \/ UserProfileLoaded
    \/ HandleSheetUrlSubmit
    \/ SpreadsheetMetadataLoaded
    \/ HandleSheetChange
    \/ SheetDataLoaded
    \/ SetDateRange
    \/ SetPtaThreshold
    \/ GenerateAnalysis

Spec == Init /\ [][Next]_vars

(***************************************************************************)
(* Sessions on a spreadsheet of two sheets, with the logout button.        *)
(***************************************************************************)
\* handleLogout: every setter it calls; hearingScreeningAnalysis, loading,
\* dateRange and ptaThreshold have none, and requests in flight stay in flight
HandleLogout ==
    /\ user
    /\ user' = FALSE
    /\ accessToken' = FALSE
    /\ sheetData' = Null
    /\ availableSheets' = <<>>
    /\ selectedSheet' = ""
    /\ spreadsheetId' = FALSE
    /\ customerAnalysis' = Null
    /\ salesmenAnalysis' = Null
    /\ clinicAnalysis' = Null
    /\ storeReferralAnalysis' = Null
    /\ error' = ""
    /\ analysisRun' = "idle"
    /\ UNCHANGED <<hearingScreeningAnalysis, loading, params, environment, pending,
                   fetches>>

SessionInit ==
    /\ user = FALSE
    /\ accessToken = FALSE
    /\ spreadsheetId = FALSE
    /\ availableSheets = <<>>
    /\ selectedSheet = ""
    /\ sheetData = Null
    /\ loading = FALSE
    /\ error = ""
    /\ dateRange = [startYear |-> CurrentYear, startMonth |-> 1,
                    endYear |-> CurrentYear, endMonth |-> 12]
    /\ ptaThreshold = DefaultPtaThreshold
    /\ customerAnalysis = Null
    /\ salesmenAnalysis = Null
    /\ clinicAnalysis = Null
    /\ storeReferralAnalysis = Null
    /\ hearingScreeningAnalysis = Null
    /\ remoteSheet \in SessionSheets
    /\ remoteTitles = <<SheetName, OtherSheetName>>
    /\ hostEnv = [lenient |-> TRUE, west |-> FALSE]
    /\ pending = <<>>
    /\ fetches = 0
    /\ analysisRun = "idle"

SessionNext ==
    \/ Next
    \/ HandleLogout

SessionSpec == SessionInit /\ [][SessionNext]_vars

(***************************************************************************)
(* The present invocation's inputs, and what an invocation writes.         *)
(***************************************************************************)
Grid == sheetData[1].values

Headers == Grid[1]

\* the filtered rows of the present grid, window and host
Customers == customersArray(Grid, dateRange, hostEnv)

KeptRows == 1..Len(Customers)

\* what an invocation writes: the values the five setters receive, in the
\* order of results, or <<>> when it returns before the setters
AnalysisOf(grid, range, threshold, env) ==
    LET headers == grid[1]
        customers == customersArray(grid, range, env)
    IN  IF Len(grid) < 2 \/ dateColumnIndex(headers) = 0 THEN <<>>
        ELSE IF customers = <<>> THEN <<>>
        ELSE <<Some(CustomerAnalysisOf(headers, customers, threshold, env)),
               Some(SalesmenAnalysis(headers, customers, threshold)),
               Some(clinicArray(headers, customers, threshold)),
               Some(storeArray(headers, customers, threshold)),
               Some(hearingArray(headers, customers, threshold, env))>>

\* the date of a row's cell under the resolved date column
AnchorDate(row) == ParseRowDate(Trim(CellAt(row, dateColumnIndex(Headers))), hostEnv)

(***************************************************************************)
(* C1.  A data row that the date-window filter excludes (its date cell is  *)
(* missing or blank, is unparseable, or lies outside the window) is        *)
(* counted nowhere: the five structures an invocation wrote are the ones   *)
(* it writes on the grid with that row removed.                            *)
(***************************************************************************)
DateFilterExcludes(row) ==
    \/ Trim(CellAt(row, dateColumnIndex(Headers))) = <<>>
    \/ ~AnchorDate(row).valid
    \/ TimeOf(AnchorDate(row)) < TimeOf(startDate(dateRange))
    \/ TimeOf(AnchorDate(row)) > TimeOf(endDate(dateRange))

C1_ExcludedRowsAreCountedNowhere ==
    analysisRun = "done" =>
        \A i \in 2..Len(Grid) :
            DateFilterExcludes(Grid[i]) =>
                results = AnalysisOf(RemoveAt(Grid, i), dateRange, ptaThreshold, hostEnv)

\* an invocation has written its results on a grid holding a converted row
\* dated outside the window
C1_Witness ==
    /\ analysisRun = "done"
    /\ \E i \in 2..Len(Grid) :
           /\ AnchorDate(Grid[i]).valid
           /\ DateFilterExcludes(Grid[i])
           /\ isDealt(Headers, Grid[i])

(***************************************************************************)
(* C2.  An invocation on a grid with a date column replaces the five       *)
(* structures; in particular, after an invocation that found no data row   *)
(* inside the window, no structure shows a non-zero global total or keeps  *)
(* a bucket.                                                               *)
(***************************************************************************)
C2_EmptyWindowLeavesNoTotalsAndNoBuckets ==
    analysisRun = "noRows" =>
        /\ customerAnalysis # Null =>
               /\ customerAnalysis[1].totalCustomers = 0
               /\ customerAnalysis[1].totalCompletedDeals = 0
               /\ customerAnalysis[1].totalAmount = Zero
               /\ customerAnalysis[1].monthlyData = <<>>
        /\ salesmenAnalysis # Null => salesmenAnalysis[1] = <<>>
        /\ clinicAnalysis # Null => clinicAnalysis[1] = <<>>
        /\ storeReferralAnalysis # Null => storeReferralAnalysis[1] = <<>>
        /\ hearingScreeningAnalysis # Null => hearingScreeningAnalysis[1] = <<>>

(***************************************************************************)
(* C3.  As stated: whenever performCustomerAnalysis runs on a grid none of *)
(* whose headers contains 初次到店, 日期 or Date, it sets the error and      *)
(* writes none of the five structures.                                     *)
(***************************************************************************)
C3_NoDateColumnFails ==
    [][(/\ sheetData # Null
        /\ Len(Grid) >= 1
        /\ dateColumnIndex(Headers) = 0
        /\ GenerateAnalysis)
         => (error' = NoDateColumnError /\ results' = results)]_vars

(***************************************************************************)
(* C3, amended.  Whenever performCustomerAnalysis runs on a grid with at   *)
(* least one data row and none of whose headers contains 初次到店, 日期 or   *)
(* Date, it sets the error and writes none of the five structures.         *)
(***************************************************************************)
C3_NoDateColumnFailsWithDataRows ==
    [][(/\ sheetData # Null
        /\ Len(Grid) >= 2
        /\ dateColumnIndex(Headers) = 0
        /\ GenerateAnalysis)
         => (error' = NoDateColumnError /\ results' = results)]_vars

\* an invocation has failed on a grid with a data row and no date column
C3_Witness ==
    /\ analysisRun = "noDateColumn"
    /\ Len(Grid) >= 2
    /\ dateColumnIndex(Headers) = 0
    /\ error = NoDateColumnError
    /\ results = <<Null, Null, Null, Null, Null>>

(***************************************************************************)
(* C4.  A filtered row is counted as converted, in totalCompletedDeals and *)
(* in its specialist's 訂單數量, if and only if one of its cells under      *)
(* 是否成交, 是否借機, 是否有借機, 成交 equals 是 or TRUE, or its 狀態 cell    *)
(* equals 成交 or 已成交.                                                   *)
(***************************************************************************)
MarkedConverted(row) ==
    \/ \E key \in {ShiFouChengJiao, ShiFouJieJi, ShiFouYouJieJi, ChengJiao} :
           Get(Headers, row, key) \in {Shi, TrueWord}
    \/ Get(Headers, row, ZhuangTai) \in {ChengJiao, YiChengJiao}

C4_ConvertedIffMarked ==
    analysisRun = "done" =>
        /\ customerAnalysis[1].totalCompletedDeals =
               Cardinality({i \in KeptRows : MarkedConverted(Customers[i])})
        /\ \A k \in 1..Len(salesmenAnalysis[1]) :
               salesmenAnalysis[1][k].dingDanShuLiang =
                   Cardinality({i \in KeptRows :
                       /\ salesmanOf(Headers, Customers[i]) = salesmenAnalysis[1][k].yeWuYuan
                       /\ MarkedConverted(Customers[i])})

(***************************************************************************)
(* C5.  For every filtered row the converted decision of the monthly pass  *)
(* and of the clinic pass equals the one of the specialist pass (which the *)
(* hearing-screening pass shares), and the potential decision of the       *)
(* monthly, clinic and store passes equals the one of the specialist pass. *)
(***************************************************************************)
C5_SameClassificationInEveryPass ==
    analysisRun = "done" =>
        \A i \in KeptRows :
            /\ isDealtMonthly(Headers, Customers[i]) = isDealt(Headers, Customers[i])
            /\ isDealtClinic(Headers, Customers[i]) = isDealt(Headers, Customers[i])
            /\ isPotentialClinic(Headers, Customers[i], ptaThreshold)
                   = isPotentialCustomer(Headers, Customers[i], ptaThreshold)

(***************************************************************************)
(* C6.  A filtered row is counted in totalCustomers and in its             *)
(* specialist's 潛力客戶數 if and only if its left-ear PTA is strictly       *)
(* greater than ptaThreshold, or its right-ear PTA is, or the row is       *)
(* counted as converted by that pass; a PTA equal to the threshold, a      *)
(* missing PTA column and an unparseable PTA cell are not above it.        *)
(***************************************************************************)
PtaAbove(row, earLabel) ==
    LET pta == getEarPTA(Headers, row, earLabel)
    IN  /\ pta.d # 0
        /\ pta.n > ptaThreshold * pta.d

AboveOrConverted(row) ==
    PtaAbove(row, ZuoEr) \/ PtaAbove(row, YouEr) \/ isDealt(Headers, row)

C6_PotentialIffAboveOrConverted ==
    analysisRun = "done" =>
        /\ customerAnalysis[1].totalCustomers =
               Cardinality({i \in KeptRows : AboveOrConverted(Customers[i])})
        /\ \A k \in 1..Len(salesmenAnalysis[1]) :
               salesmenAnalysis[1][k].qianLiKeHuShu =
                   Cardinality({i \in KeptRows :
                       /\ salesmanOf(Headers, Customers[i]) = salesmenAnalysis[1][k].yeWuYuan
                       /\ AboveOrConverted(Customers[i])})

\* an invocation has counted no potential customer on a grid with a row,
\* not converted, whose left-ear PTA equals the threshold
C6_Witness ==
    /\ analysisRun = "done"
    /\ customerAnalysis[1].totalCustomers = 0
    /\ \E i \in KeptRows :
           /\ getEarPTA(Headers, Customers[i], ZuoEr) = Int2Num(ptaThreshold)
           /\ ~isDealt(Headers, Customers[i])

(***************************************************************************)
(* C7.  Every entry of the by-specialist aggregate has                     *)
(* 潛力客戶數 >= 訂單數量.                                                   *)
(***************************************************************************)
C7_PotentialAtLeastOrders ==
    salesmenAnalysis # Null =>
        \A k \in 1..Len(salesmenAnalysis[1]) :
            salesmenAnalysis[1][k].qianLiKeHuShu >= salesmenAnalysis[1][k].dingDanShuLiang

\* an invocation has counted an order for a row with no PTA above the
\* threshold
C7_Witness ==
    /\ analysisRun = "done"
    /\ \E i \in KeptRows :
           /\ isDealt(Headers, Customers[i])
           /\ ~AboveThreshold(Headers, Customers[i], ptaThreshold)
    /\ \E k \in 1..Len(salesmenAnalysis[1]) : salesmenAnalysis[1][k].dingDanShuLiang > 0

(***************************************************************************)
(* C8.  In every result, overallConversionRate is                          *)
(* totalCompletedDeals / totalCustomers * 100 when totalCustomers > 0, and *)
(* 0 when totalCustomers = 0.                                              *)
(***************************************************************************)
C8_OverallConversionRate ==
    customerAnalysis # Null =>
        LET result == customerAnalysis[1]
            rate == result.overallConversionRate
        IN  IF result.totalCustomers > 0
            THEN /\ rate.d > 0
                 /\ rate.n * result.totalCustomers = 100 * result.totalCompletedDeals * rate.d
            ELSE rate = Zero

\* a result with some, and not all, of its potential customers converted
C8_Witness ==
    /\ customerAnalysis # Null
    /\ customerAnalysis[1].totalCompletedDeals > 0
    /\ customerAnalysis[1].totalCompletedDeals < customerAnalysis[1].totalCustomers

(***************************************************************************)
(* C9.  Each filtered row is counted in the monthly bucket of the year and *)
(* month of its anchor date, the date of its cell under the resolved date  *)
(* column, so that every monthly bucket lies within the selected window.   *)
(***************************************************************************)
C9_MonthlyBucketsFollowAnchorDate ==
    analysisRun = "done" =>
        LET monthly == customerAnalysis[1].monthlyData
        IN  /\ \A i \in KeptRows :
                   \E b \in 1..Len(monthly) :
                       monthly[b].month = MonthKey(AnchorDate(Customers[i]))
            /\ \A b \in 1..Len(monthly) :
                   LET m == 12 * monthly[b].year + MonthOfKey(monthly[b].month)
                   IN  /\ m >= 12 * dateRange.startYear + dateRange.startMonth
                       /\ m <= 12 * dateRange.endYear + dateRange.endMonth

(***************************************************************************)
(* C10.  A data row whose date cell matches one of the three patterns but  *)
(* names an invalid calendar date (a month outside 1..12, a day past the   *)
(* end of its month) is dropped: it is no filtered row.                    *)
(***************************************************************************)
NotOnCalendar(y, m, d) == m \notin 1..12 \/ d \notin 1..DaysInMonth(y, m)

NamesInvalidCalendarDate(dateStr) ==
    LET m0 == MatchFormat0(dateStr)
        m1 == MatchFormat1(dateStr)
        m2 == MatchFormat2(dateStr)
    IN  IF m0.ok THEN NotOnCalendar(m0.g1, m0.g2, m0.g3)
        ELSE IF m1.ok THEN NotOnCalendar(m1.g3, m1.g1, m1.g2)
        ELSE m2.ok /\ NotOnCalendar(m2.g1, m2.g2, m2.g3)

C10_InvalidCalendarDatesAreDropped ==
    analysisRun = "done" =>
        \A i \in KeptRows :
            ~NamesInvalidCalendarDate(Trim(CellAt(Customers[i], dateColumnIndex(Headers))))

(***************************************************************************)
(* C11.  A data row with a parsed date is kept by the date-window filter   *)
(* if and only if its date falls on or after the first day of the start    *)
(* month and on or before the last day of the end month, both ends         *)
(* included.                                                               *)
(***************************************************************************)
firstDay == DaysFromCivil(dateRange.startYear, dateRange.startMonth, 1)

lastDay ==
    DaysFromCivil(dateRange.endYear, dateRange.endMonth,
                  DaysInMonth(dateRange.endYear, dateRange.endMonth))

C11_WindowIsInclusiveAtBothEnds ==
    analysisRun \in {"done", "noRows"} =>
        \A i \in 2..Len(Grid) :
            (/\ Trim(CellAt(Grid[i], dateColumnIndex(Headers))) # <<>>
             /\ AnchorDate(Grid[i]).valid)
                => (RowIsKept(Grid[i], dateColumnIndex(Headers), dateRange, hostEnv)
                        <=> (/\ firstDay <= AnchorDate(Grid[i]).day
                             /\ AnchorDate(Grid[i]).day <= lastDay))

(***************************************************************************)
(* C12.  In every monetary total (the global totalAmount, a specialist's   *)
(* 當季業績累積, the totalAmount of a monthly, clinic or hearing-screening *)
(* bucket) a row's amount is added only when the row is converted and the  *)
(* amount is valid and greater than 0: each total is the sum of the        *)
(* amounts of some of the converted rows of its scope that carry a valid   *)
(* positive amount, and of no other row.                                   *)
(***************************************************************************)
RECURSIVE SumOfAmounts(_)
SumOfAmounts(rows) ==
    IF rows = {} THEN Zero
    ELSE LET i == CHOOSE j \in rows : TRUE
         IN  Plus(dealAmount(Headers, Customers[i]), SumOfAmounts(rows \ {i}))

HasValidAmount(row) ==
    /\ ~IsNaN(dealAmount(Headers, row))
    /\ GreaterThan(dealAmount(Headers, row), Zero)

OnlyConvertedAmounts(total, scope) ==
    \E rows \in SUBSET {i \in scope : /\ MarkedConverted(Customers[i])
                                      /\ HasValidAmount(Customers[i])} :
        total = SumOfAmounts(rows)

BucketMonth(row) == MonthKey(NewDateFromText(serviceDateOf(Headers, row), hostEnv))

C12_AmountsOnlyFromConvertedRows ==
    analysisRun = "done" =>
        /\ OnlyConvertedAmounts(customerAnalysis[1].totalAmount, KeptRows)
        /\ \A k \in 1..Len(salesmenAnalysis[1]) :
               OnlyConvertedAmounts(salesmenAnalysis[1][k].dangJiYeJiLeiJi,
                   {i \in KeptRows :
                       salesmanOf(Headers, Customers[i]) = salesmenAnalysis[1][k].yeWuYuan})
        /\ \A k \in 1..Len(customerAnalysis[1].monthlyData) :
               OnlyConvertedAmounts(customerAnalysis[1].monthlyData[k].totalAmount,
                   {i \in KeptRows :
                       BucketMonth(Customers[i]) = customerAnalysis[1].monthlyData[k].month})
        /\ \A k \in 1..Len(clinicAnalysis[1]) :
               OnlyConvertedAmounts(clinicAnalysis[1][k].totalAmount,
                   {i \in KeptRows :
                       Trim(Get(Headers, Customers[i], ZhenSuoMingCheng))
                           = clinicAnalysis[1][k].clinic})
        /\ \A k \in 1..Len(hearingScreeningAnalysis[1]) :
               OnlyConvertedAmounts(hearingScreeningAnalysis[1][k].totalAmount,
                   {i \in KeptRows :
                       BucketMonth(Customers[i]) = hearingScreeningAnalysis[1][k].month})

\* an invocation has met a row that carries a valid amount and no conversion
\* marker, and a converted row whose amount is zero or unparseable
C12_Witness ==
    /\ analysisRun = "done"
    /\ \E i \in KeptRows :
           \/ ~MarkedConverted(Customers[i]) /\ HasValidAmount(Customers[i])
           \/ /\ MarkedConverted(Customers[i])
              /\ Get(Headers, Customers[i], ChengJiaoJinE) \in {A0, AText}
    /\ customerAnalysis[1].totalAmount = Zero

(***************************************************************************)
(* C13.  Every stored rate or average (a specialist's 成交率, a month's    *)
(* conversionRate and averageAmount, a clinic's and a hearing-screening    *)
(* month's conversionRate, overallConversionRate) is a finite number, and  *)
(* is 0 when its denominator is 0.                                         *)
(***************************************************************************)
FiniteAndZeroWithout(rate, denominator) ==
    /\ IsFinite(rate)
    /\ denominator = 0 => rate = Zero

C13_RatesAreFiniteAndZeroWithoutDenominator ==
    /\ salesmenAnalysis # Null =>
           \A k \in 1..Len(salesmenAnalysis[1]) :
               FiniteAndZeroWithout(salesmenAnalysis[1][k].chengJiaoLv,
                                    salesmenAnalysis[1][k].qianLiKeHuShu)
    /\ customerAnalysis # Null =>
           /\ FiniteAndZeroWithout(customerAnalysis[1].overallConversionRate,
                                   customerAnalysis[1].totalCustomers)
           /\ \A k \in 1..Len(customerAnalysis[1].monthlyData) :
                  LET m == customerAnalysis[1].monthlyData[k]
                  IN  /\ FiniteAndZeroWithout(m.conversionRate, m.newCustomers)
                      /\ FiniteAndZeroWithout(m.averageAmount, m.completedDeals)
    /\ clinicAnalysis # Null =>
           \A k \in 1..Len(clinicAnalysis[1]) :
               FiniteAndZeroWithout(clinicAnalysis[1][k].conversionRate,
                                    clinicAnalysis[1][k].total)
    /\ hearingScreeningAnalysis # Null =>
           \A k \in 1..Len(hearingScreeningAnalysis[1]) :
               FiniteAndZeroWithout(hearingScreeningAnalysis[1][k].conversionRate,
                                    hearingScreeningAnalysis[1][k].total)

\* a stored month with no new customer and no completed deal, next to a
\* specialist with no potential customer
C13_Witness ==
    /\ customerAnalysis # Null
    /\ salesmenAnalysis # Null
    /\ \E k \in 1..Len(customerAnalysis[1].monthlyData) :
           /\ customerAnalysis[1].monthlyData[k].newCustomers = 0
           /\ customerAnalysis[1].monthlyData[k].completedDeals = 0
    /\ \E k \in 1..Len(salesmenAnalysis[1]) : salesmenAnalysis[1][k].qianLiKeHuShu = 0

(***************************************************************************)
(* C14.  The by-clinic aggregate never holds a bucket whose name is empty  *)
(* after trimming, and the by-store aggregate never holds a bucket whose   *)
(* name is empty after trimming or is #N/A.                                *)
(***************************************************************************)
C14_NoBucketForMissingNames ==
    /\ clinicAnalysis # Null =>
           \A k \in 1..Len(clinicAnalysis[1]) : Trim(clinicAnalysis[1][k].clinic) # <<>>
    /\ storeReferralAnalysis # Null =>
           \A k \in 1..Len(storeReferralAnalysis[1]) :
               /\ Trim(storeReferralAnalysis[1][k].store) # <<>>
               /\ storeReferralAnalysis[1][k].store # NotAvailable

\* an invocation has met a kept row whose store cell is blank or #N/A, and
\* one whose clinic cell is blank
C14_Witness ==
    /\ analysisRun = "done"
    /\ storeKey(Headers) # 0
    /\ \E i \in KeptRows :
           \/ Get(Headers, Customers[i], Headers[storeKey(Headers)]) \in {NotAvailable, Blank}
           \/ Get(Headers, Customers[i], ZhenSuoMingCheng) = Blank
    /\ \/ storeReferralAnalysis[1] = <<>>
       \/ clinicAnalysis[1] = <<>>

(***************************************************************************)
(* C15.  Invoking performCustomerAnalysis a second time with the same      *)
(* inputs (sheet data, date range, PTA threshold) yields the same five     *)
(* structures as the first invocation: the results depend on nothing but   *)
(* the inputs.                                                             *)
(***************************************************************************)
C15_SameInputsSameResults ==
    [][(/\ analysisRun = "done"
        /\ analysisRun' = "done"
        /\ sheetData' = sheetData
        /\ params' = params
        /\ hostEnv' = hostEnv)
           => /\ results' = results
              /\ results' = AnalysisOf(Grid, dateRange, ptaThreshold, hostEnv)]_vars

\* a completed invocation, with something in every structure, whose report
\* button can be pressed again on the same inputs
C15_Witness ==
    /\ analysisRun = "done"
    /\ user /\ sheetData # Null /\ ~loading /\ selectedSheet # ""
    /\ customerAnalysis[1].totalAmount # Zero
    /\ Len(customerAnalysis[1].monthlyData) > 1
    /\ Len(salesmenAnalysis[1]) > 1
    /\ Len(clinicAnalysis[1]) > 1
    /\ Len(storeReferralAnalysis[1]) > 1
    /\ hearingScreeningAnalysis[1] # <<>>

(***************************************************************************)
(* C16.  dateRange.earliest is the service-date text (服務日期, else       *)
(* 初次到店, else empty) of the first filtered record in grid order, and   *)
(* dateRange.latest that of the last one; neither is the minimum or the    *)
(* maximum of the dates.                                                   *)
(***************************************************************************)
KeptGridRows ==
    {i \in 2..Len(Grid) : RowIsKept(Grid[i], dateColumnIndex(Headers), dateRange, hostEnv)}

ServiceDateText(row) ==
    IF Get(Headers, row, FuWuRiQi) # <<>> THEN Get(Headers, row, FuWuRiQi)
    ELSE Get(Headers, row, ChuCiDaoDian)

C16_DateRangeIsFirstAndLastRecord ==
    analysisRun = "done" =>
        LET first == CHOOSE i \in KeptGridRows : \A j \in KeptGridRows : i <= j
            last == CHOOSE i \in KeptGridRows : \A j \in KeptGridRows : j <= i
        IN  /\ customerAnalysis[1].dateRange.earliest = ServiceDateText(Grid[first])
            /\ customerAnalysis[1].dateRange.latest = ServiceDateText(Grid[last])

\* a result whose first filtered record is dated after its last one
C16_Witness ==
    /\ analysisRun = "done"
    /\ Len(Customers) > 1
    /\ AnchorDate(Customers[1]).valid
    /\ AnchorDate(Customers[Len(Customers)]).valid
    /\ AnchorDate(Customers[1]).day > AnchorDate(Customers[Len(Customers)]).day
    /\ customerAnalysis[1].dateRange.earliest = ServiceDateText(Customers[1])
    /\ customerAnalysis[1].dateRange.earliest # customerAnalysis[1].dateRange.latest

(***************************************************************************)
(* C17.  The by-specialist output lists every specialist of the filtered   *)
(* rows exactly once, in the order in which the specialists are first seen *)
(* in the grid (the name is 主聽力師, else 聽力師, else 未知業務員),       *)
(* whatever the names are.                                                 *)
(***************************************************************************)
SpecialistName(row) ==
    IF Get(Headers, row, ZhuTingLiShi) # <<>> THEN Get(Headers, row, ZhuTingLiShi)
    ELSE IF Get(Headers, row, TingLiShi) # <<>> THEN Get(Headers, row, TingLiShi)
    ELSE WeiZhiYeWuYuan

\* the names of the filtered rows, each at the place of its first row
FirstSeenSpecialists ==
    LET firstRows == {i \in KeptRows :
                         \A j \in 1..(i - 1) :
                             SpecialistName(Customers[j]) # SpecialistName(Customers[i])}
        nth(k) == CHOOSE i \in firstRows : Cardinality({j \in firstRows : j < i}) = k - 1
    IN  [k \in 1..Cardinality(firstRows) |-> SpecialistName(Customers[nth(k)])]

C17_SpecialistsInFirstSeenOrder ==
    analysisRun = "done" =>
        [k \in 1..Len(salesmenAnalysis[1]) |-> salesmenAnalysis[1][k].yeWuYuan]
            = FirstSeenSpecialists

(***************************************************************************)
(* C18.  The by-clinic and by-store outputs are sorted by total, largest   *)
(* first: of two adjacent entries the earlier has a total no smaller than  *)
(* the later.                                                              *)
(***************************************************************************)
C18_ClinicsAndStoresByDescendingTotal ==
    /\ clinicAnalysis # Null =>
           \A k \in 1..(Len(clinicAnalysis[1]) - 1) :
               clinicAnalysis[1][k].total >= clinicAnalysis[1][k + 1].total
    /\ storeReferralAnalysis # Null =>
           \A k \in 1..(Len(storeReferralAnalysis[1]) - 1) :
               storeReferralAnalysis[1][k].total >= storeReferralAnalysis[1][k + 1].total

\* a result whose largest clinic and largest store are not those of the
\* first filtered record
C18_Witness ==
    /\ analysisRun = "done"
    /\ Len(clinicAnalysis[1]) > 1
    /\ Len(storeReferralAnalysis[1]) > 1
    /\ clinicAnalysis[1][1].total > clinicAnalysis[1][2].total
    /\ storeReferralAnalysis[1][1].total > storeReferralAnalysis[1][2].total
    /\ clinicAnalysis[1][1].clinic # Trim(Get(Headers, Customers[1], ZhenSuoMingCheng))
    /\ storeReferralAnalysis[1][1].store
           # Trim(Get(Headers, Customers[1], Headers[storeKey(Headers)]))

(***************************************************************************)
(* C19.  The monthly output and the hearing-screening output are strictly  *)
(* ascending by (year, month): no two entries share a year and a month,    *)
(* and every entry comes before the entries of later months.               *)
(***************************************************************************)
MonthNumber(key) ==
    LET k == CHOOSE i \in 1..Len(key) : key[i] = "nian"
    IN  ParseDigits(SubSeq(key, k + 1, Len(key) - 1))

StrictlyAscendingMonths(entries) ==
    \A k \in 1..(Len(entries) - 1) :
        \/ entries[k].year < entries[k + 1].year
        \/ /\ entries[k].year = entries[k + 1].year
           /\ MonthNumber(entries[k].month) < MonthNumber(entries[k + 1].month)

C19_MonthsStrictlyAscending ==
    /\ customerAnalysis # Null => StrictlyAscendingMonths(customerAnalysis[1].monthlyData)
    /\ hearingScreeningAnalysis # Null =>
           StrictlyAscendingMonths(hearingScreeningAnalysis[1])

\* a result of several months, in both outputs, whose first filtered record
\* is not of the first month
C19_Witness ==
    /\ analysisRun = "done"
    /\ Len(customerAnalysis[1].monthlyData) > 1
    /\ Len(hearingScreeningAnalysis[1]) > 1
    /\ customerAnalysis[1].monthlyData[1].month # BucketMonth(Customers[1])
    /\ hearingScreeningAnalysis[1][1].month # BucketMonth(Customers[1])

(***************************************************************************)
(* C20.  Only the filtered rows whose source text (顧客來源, else          *)
(* 顧客來源↵(可複選)) contains 聽篩 are counted in the hearing-screening   *)
(* aggregate: the totals of its buckets sum to no more than the number of  *)
(* such rows, and a row without 聽篩 changes no bucket.                    *)
(***************************************************************************)
SourceText(row) ==
    IF Get(Headers, row, GuKeLaiYuan) # <<>> THEN Get(Headers, row, GuKeLaiYuan)
    ELSE Get(Headers, row, GuKeLaiYuanKeFuXuan)

FromScreening(row) == Includes(SourceText(row), TingShai)

RECURSIVE SumOfTotals(_)
SumOfTotals(entries) ==
    IF entries = <<>> THEN 0 ELSE Head(entries).total + SumOfTotals(Tail(entries))

C20_OnlyScreeningRowsInHearingAggregate ==
    analysisRun = "done" =>
        /\ SumOfTotals(hearingScreeningAnalysis[1])
               <= Cardinality({i \in KeptRows : FromScreening(Customers[i])})
        /\ hearingScreeningAnalysis[1]
               = hearingArray(Headers, SelectSeq(Customers, FromScreening),
                              ptaThreshold, hostEnv)

\* an invocation has counted a screening row and has met a row of another
\* source
C20_Witness ==
    /\ analysisRun = "done"
    /\ hearingScreeningAnalysis[1] # <<>>
    /\ \E i \in KeptRows : ~FromScreening(Customers[i])
    /\ SumOfTotals(hearingScreeningAnalysis[1]) < Len(Customers)

(***************************************************************************)
(* C21.  A data row whose date cell is missing, empty or unparseable is    *)
(* only skipped: the invocation sets no error, and it writes what it       *)
(* writes on the grid without those rows, so the rows after them are       *)
(* processed and counted.                                                  *)
(***************************************************************************)
HasNoDate(row) ==
    \/ Trim(CellAt(row, dateColumnIndex(Headers))) = <<>>
    \/ ~AnchorDate(row).valid

GridOfDatedRows == <<Headers>> \o SelectSeq(Tail(Grid), LAMBDA row : ~HasNoDate(row))

C21_UndatedRowsAreOnlySkipped ==
    (/\ analysisRun \in {"done", "noRows"}
     /\ \E i \in 2..Len(Grid) : HasNoDate(Grid[i]))
        => /\ error # NoDateColumnError
           /\ IF analysisRun = "done"
              THEN results = AnalysisOf(GridOfDatedRows, dateRange, ptaThreshold, hostEnv)
              ELSE AnalysisOf(GridOfDatedRows, dateRange, ptaThreshold, hostEnv) = <<>>

\* an invocation has counted a row that comes after a row with no date cell
\* and after a row with an unparseable one
C21_Witness ==
    /\ analysisRun = "done"
    /\ error = ""
    /\ \E i, j, k \in 2..Len(Grid) :
           /\ i < k /\ j < k
           /\ CellAt(Grid[i], dateColumnIndex(Headers)) = <<>>
           /\ Trim(CellAt(Grid[j], dateColumnIndex(Headers))) # <<>>
           /\ ~AnchorDate(Grid[j]).valid
           /\ Customers = <<Grid[k]>>
    /\ customerAnalysis[1].totalCompletedDeals = 1

(***************************************************************************)
(* C22.  parseAmount and parseNumber return the number written by the      *)
(* decimal digits and the decimal point of their input, every other        *)
(* character being removed (NT$152,000.00 is 152000), and return NaN,      *)
(* never 0, for an undefined, an empty and an all-stripped input.  The     *)
(* inputs are all the cells of the grid, which hold one point at most.     *)
(***************************************************************************)
WrittenNumber(text) ==
    LET digits == SelectSeq(text, IsDigit)
        points == {i \in 1..Len(text) : text[i] = "."}
        decimals == Cardinality({i \in 1..Len(text) :
                        IsDigit(text[i]) /\ \E q \in points : q < i})
    IN  IF digits = <<>> THEN NaN
        ELSE Rat(ParseDigits(digits), Pow10(decimals))

C22_ParsersReadDigitsAndPoint ==
    analysisRun = "done" =>
        \A i \in 2..Len(Grid) : \A j \in 1..Len(Headers) :
            /\ parseAmount(CellAt(Grid[i], j)) = WrittenNumber(CellAt(Grid[i], j))
            /\ parseNumber(CellAt(Grid[i], j)) = WrittenNumber(CellAt(Grid[i], j))
            /\ WrittenNumber(CellAt(Grid[i], j)) = Zero
                   => \E k \in 1..Len(CellAt(Grid[i], j)) : CellAt(Grid[i], j)[k] = "0"

\* an invocation has parsed NT$152,000.00 as 152000 and an empty amount as
\* NaN, and has added the first to the total
C22_Witness ==
    /\ analysisRun = "done"
    /\ \E i \in KeptRows :
           /\ Get(Headers, Customers[i], ChengJiaoJinE) = A152000
           /\ dealAmount(Headers, Customers[i]) = Int2Num(152000)
    /\ \E i \in KeptRows :
           /\ Get(Headers, Customers[i], ChengJiaoJinE) = <<>>
           /\ IsNaN(dealAmount(Headers, Customers[i]))
    /\ customerAnalysis[1].totalAmount = Int2Num(167000)

(***************************************************************************)
(* C23.  performCustomerAnalysis never changes its inputs: across every    *)
(* invocation, whether it writes its results, fails for want of a date     *)
(* column or returns early, sheetData.values, dateRange and ptaThreshold   *)
(* stay what they were.                                                    *)
(***************************************************************************)
AnalysisStep ==
    /\ analysisRun' # "idle"
    /\ analysisRun' # analysisRun \/ results' # results \/ error' # error

C23_AnalysisLeavesItsInputs ==
    [][AnalysisStep => /\ sheetData' = sheetData
                       /\ dateRange' = dateRange
                       /\ ptaThreshold' = ptaThreshold]_vars

\* an invocation has read a grid with a padded cell in a kept row, and the
\* grid is still the one the spreadsheet sent
C23_Witness ==
    /\ analysisRun = "done"
    /\ Grid = remoteSheet
    /\ \E i \in KeptRows : \E j \in 1..Len(Customers[i]) :
           Customers[i][j] # Trim(Customers[i][j])
    /\ clinicAnalysis[1] # <<>>

(***************************************************************************)
(* C24.  The monthly aggregate agrees with the global totals of the same   *)
(* invocation: over all monthly buckets, newCustomers sums to              *)
(* totalCustomers, completedDeals to totalCompletedDeals, and totalAmount  *)
(* to the global totalAmount.                                              *)
(***************************************************************************)
RECURSIVE SumOfCounts(_, _)
SumOfCounts(entries, field) ==
    IF entries = <<>> THEN 0
    ELSE Head(entries)[field] + SumOfCounts(Tail(entries), field)

RECURSIVE SumOfMoney(_, _)
SumOfMoney(entries, field) ==
    IF entries = <<>> THEN Zero
    ELSE Plus(Head(entries)[field], SumOfMoney(Tail(entries), field))

C24_MonthlySumsAreTheGlobalTotals ==
    analysisRun = "done" =>
        LET result == customerAnalysis[1]
        IN  /\ SumOfCounts(result.monthlyData, "newCustomers") = result.totalCustomers
            /\ SumOfCounts(result.monthlyData, "completedDeals") = result.totalCompletedDeals
            /\ SumOfMoney(result.monthlyData, "totalAmount") = result.totalAmount

(***************************************************************************)
(* C25.  In every monthly bucket completedDeals <= newCustomers, so the    *)
(* bucket's conversionRate never exceeds 100 and is never 0 while          *)
(* completedDeals > 0.                                                     *)
(***************************************************************************)
C25_MonthlyDealsWithinNewCustomers ==
    customerAnalysis # Null =>
        \A k \in 1..Len(customerAnalysis[1].monthlyData) :
            LET m == customerAnalysis[1].monthlyData[k]
            IN  /\ m.completedDeals <= m.newCustomers
                /\ ~GreaterThan(m.conversionRate, Int2Num(100))
                /\ m.completedDeals > 0 => m.conversionRate # Zero

(***************************************************************************)
(* C26.  The by-specialist aggregate partitions the filtered rows: every   *)
(* filtered row belongs to exactly one specialist entry, and over all      *)
(* specialists 潛力客戶數 sums to totalCustomers, 訂單數量 to               *)
(* totalCompletedDeals and 當季業績累積 to the global totalAmount.         *)
(***************************************************************************)
C26_SpecialistsPartitionTheRows ==
    analysisRun = "done" =>
        /\ \A i \in KeptRows :
               Cardinality({k \in 1..Len(salesmenAnalysis[1]) :
                   salesmenAnalysis[1][k].yeWuYuan = SpecialistName(Customers[i])}) = 1
        /\ SumOfCounts(salesmenAnalysis[1], "qianLiKeHuShu")
               = customerAnalysis[1].totalCustomers
        /\ SumOfCounts(salesmenAnalysis[1], "dingDanShuLiang")
               = customerAnalysis[1].totalCompletedDeals
        /\ SumOfMoney(salesmenAnalysis[1], "dangJiYeJiLeiJi")
               = customerAnalysis[1].totalAmount

\* a result of three specialists, two of them with an order and an amount,
\* one with a converted customer below the threshold
C26_Witness ==
    /\ analysisRun = "done"
    /\ Len(salesmenAnalysis[1]) = 3
    /\ Cardinality({k \in 1..3 :
           /\ salesmenAnalysis[1][k].dingDanShuLiang > 0
           /\ salesmenAnalysis[1][k].dangJiYeJiLeiJi # Zero}) = 2
    /\ \E i \in KeptRows :
           /\ isDealt(Headers, Customers[i])
           /\ ~AboveThreshold(Headers, Customers[i], ptaThreshold)

(***************************************************************************)
(* C27.  Every bucket of the by-clinic aggregate and of the hearing-       *)
(* screening aggregate has 1 <= total and dealt <= potential <= total, and *)
(* every bucket of the by-store aggregate has 1 <= total and               *)
(* potential <= total.                                                     *)
(***************************************************************************)
C27_BucketCountsAreOrdered ==
    /\ clinicAnalysis # Null =>
           \A k \in 1..Len(clinicAnalysis[1]) :
               LET b == clinicAnalysis[1][k]
               IN  1 <= b.total /\ b.dealt <= b.potential /\ b.potential <= b.total
    /\ hearingScreeningAnalysis # Null =>
           \A k \in 1..Len(hearingScreeningAnalysis[1]) :
               LET b == hearingScreeningAnalysis[1][k]
               IN  1 <= b.total /\ b.dealt <= b.potential /\ b.potential <= b.total
    /\ storeReferralAnalysis # Null =>
           \A k \in 1..Len(storeReferralAnalysis[1]) :
               LET b == storeReferralAnalysis[1][k]
               IN  1 <= b.total /\ b.potential <= b.total

\* a result with a clinic whose one potential customer is converted, and a
\* clinic of several customers none of whom is potential
C27_Witness ==
    /\ analysisRun = "done"
    /\ \E k \in 1..Len(clinicAnalysis[1]) :
           clinicAnalysis[1][k].dealt = 1 /\ clinicAnalysis[1][k].potential = 1
    /\ \E k \in 1..Len(clinicAnalysis[1]) :
           clinicAnalysis[1][k].potential = 0 /\ clinicAnalysis[1][k].total > 1
    /\ storeReferralAnalysis[1] # <<>>
    /\ hearingScreeningAnalysis[1] # <<>>

(***************************************************************************)
(* C28.  In the state right after handleLogout, sheetData and every        *)
(* analysis result held in state (customerAnalysis, salesmenAnalysis,      *)
(* clinicAnalysis, storeReferralAnalysis, hearingScreeningAnalysis) are    *)
(* null.                                                                   *)
(***************************************************************************)
C28_LogoutClearsDataAndResults ==
    [][(user /\ ~user')
           => /\ sheetData' = Null
              /\ customerAnalysis' = Null
              /\ salesmenAnalysis' = Null
              /\ clinicAnalysis' = Null
              /\ storeReferralAnalysis' = Null
              /\ hearingScreeningAnalysis' = Null]_vars

(***************************************************************************)
(* C29.  When the user selects a sheet and then another while the first    *)
(* fetch is in flight, then once both fetchSheetData calls have completed  *)
(* sheetData holds the response for the sheet named by selectedSheet,      *)
(* whatever the order of the two responses.                                *)
(***************************************************************************)
C29_SheetDataIsOfSelectedSheet ==
    (/\ user
     /\ selectedSheet # ""
     /\ sheetData # Null
     /\ error = ""
     /\ \A i \in 1..Len(pending) : pending[i].kind # "values")
        => sheetData[1].values = RemoteValues(selectedSheet)

(***************************************************************************)
(* C30.  The conversion figures do not depend on the PTA threshold: two    *)
(* invocations on the same grid and window that differ only in             *)
(* ptaThreshold write the same converted counts (totalCompletedDeals,      *)
(* 訂單數量, completedDeals, dealt), the same monetary totals and the same *)
(* bucket totals, and no potential count under the higher threshold        *)
(* exceeds the corresponding count under the lower one.                    *)
(***************************************************************************)
\* the fields of an entry that are to stay, under the names given
Kept(entry, fields) == [f \in fields |-> entry[f]]

SameFigures(a, b, fields) ==
    /\ Len(a) = Len(b)
    /\ \A k \in 1..Len(a) : Kept(a[k], fields) = Kept(b[k], fields)

NoMorePotential(high, low, field) ==
    \A k \in 1..Len(high) : high[k][field] <= low[k][field]

\* what the invocation writes under the lower and under the higher of the
\* thresholds of the select, everything else being the current inputs
UnderThreshold(threshold) == AnalysisOf(Grid, dateRange, threshold, hostEnv)

C30_ConversionFiguresIgnoreThreshold ==
    analysisRun = "done" =>
        \A lowT, highT \in PtaThresholdChoices :
            (lowT < highT /\ ptaThreshold \in {lowT, highT}) =>
                LET low == UnderThreshold(lowT)
                    high == UnderThreshold(highT)
                IN  /\ results \in {low, high}
                    /\ low[1][1].totalCompletedDeals = high[1][1].totalCompletedDeals
                    /\ low[1][1].totalAmount = high[1][1].totalAmount
                    /\ high[1][1].totalCustomers <= low[1][1].totalCustomers
                    /\ SameFigures(low[1][1].monthlyData, high[1][1].monthlyData,
                                   {"month", "year", "completedDeals", "totalAmount",
                                    "averageAmount"})
                    /\ NoMorePotential(high[1][1].monthlyData, low[1][1].monthlyData,
                                       "newCustomers")
                    /\ SameFigures(low[2][1], high[2][1],
                                   {"yeWuYuan", "dingDanShuLiang", "dangJiYeJiLeiJi"})
                    /\ NoMorePotential(high[2][1], low[2][1], "qianLiKeHuShu")
                    /\ SameFigures(low[3][1], high[3][1],
                                   {"clinic", "total", "dealt", "conversionRate",
                                    "totalAmount"})
                    /\ NoMorePotential(high[3][1], low[3][1], "potential")
                    /\ SameFigures(low[4][1], high[4][1], {"store", "total"})
                    /\ NoMorePotential(high[4][1], low[4][1], "potential")
                    /\ SameFigures(low[5][1], high[5][1],
                                   {"month", "year", "total", "dealt", "conversionRate",
                                    "totalAmount"})
                    /\ NoMorePotential(high[5][1], low[5][1], "potential")

\* a result with a deal, on a grid where a customer who is not converted is
\* potential under the lower threshold only
C30_Witness ==
    /\ analysisRun = "done"
    /\ customerAnalysis[1].totalCompletedDeals > 0
    /\ customerAnalysis[1].totalAmount # Zero
    /\ \E lowT, highT \in PtaThresholdChoices :
           /\ lowT < highT
           /\ UnderThreshold(highT)[1][1].totalCustomers
                  < UnderThreshold(lowT)[1][1].totalCustomers
           /\ ptaThreshold = highT

====
